---- MODULE Spec2Model ----
(***************************************************************************)
(* Per-output composition core of the display server                      *)
(* (compositionengine::impl::Output): the output composition state, the   *)
(* visibility and coverage pass and the phases of present().              *)
(*                                                                         *)
(* Geometry is modelled along one axis: a Rect is a half-open interval    *)
(* <<left, right>> and a Region is a finite set of integer cells.         *)
(***************************************************************************)
EXTENDS Integers, Sequences, FiniteSets, TLC

(***************************************************************************)
(* Bounds of the model.                                                    *)
(***************************************************************************)
\* Number of input layers that exist.
NumLayers == 2
\* Largest display size handed to setBounds / setRenderSurface.
MaxSize == 3
\* Largest translation of a layer transform or of the output transform.
MaxShift == 1

Layers == 1..NumLayers

(***************************************************************************)
(* Rects, regions and transforms.                                          *)
(***************************************************************************)
EmptyRect == <<0, 0>>

\* Region::set(Rect): the cells of a rect; an invalid or empty rect gives
\* the empty region.
RectRegion(r) == {x \in r[1]..(r[2] - 1) : TRUE}

MinOf(S) == CHOOSE x \in S : \A y \in S : x <= y
MaxOf(S) == CHOOSE x \in S : \A y \in S : x >= y

\* A transform is a translation, plus the ROT_INVALID orientation bit that
\* marks a general affine transform (not a 0/90/180/270 rotation or flip).
Transform(tx, rotInvalid) == [tx |-> tx, rotInvalid |-> rotInvalid]
IdentityTransform == Transform(0, FALSE)

\* ui::Transform::getOrientation() & ROT_INVALID
OrientationInvalid(t) == t.rotInvalid
\* ui::Transform::preserveRects()
PreserveRects(t) == ~t.rotInvalid

\* Rect(tr.transform(rect)): the bounding rect of the transformed rect.
TransformRect(t, r) == IF r[2] <= r[1] THEN EmptyRect ELSE <<r[1] + t.tx, r[2] + t.tx>>

\* tr.transform(region): rect by rect when the transform preserves rects,
\* otherwise the transformed bounding rect of the whole region.
TransformRegion(t, reg) ==
    IF reg = {} THEN {}
    ELSE IF PreserveRects(t) THEN {x + t.tx : x \in reg}
    ELSE (MinOf(reg) + t.tx)..(MaxOf(reg) + t.tx)

(***************************************************************************)
(* Layer front-end state (LayerFECompositionState), the part the output    *)
(* reads.  The front-end of a layer is an input: a latch stores one of     *)
(* these records.  Fields the code does not read on a path (everything but *)
(* isVisible for a hidden layer, everything after the layer stack test for *)
(* a layer of another stack, the hint of an opaque layer) are kept at      *)
(* their defaults to keep the input set small.                             *)
(***************************************************************************)
LayerRect == <<0, 2>>
LayerTransforms ==
    {Transform(tx, FALSE) : tx \in 0..MaxShift} \cup {Transform(0, TRUE)}
TransparentHints == {{}, {0}, {0, 1}}

FEState(vis, opq, dirty, tr, hint, stack, internal) ==
    [isVisible |-> vis, isOpaque |-> opq, contentDirty |-> dirty,
     geomLayerBounds |-> LayerRect, geomLayerTransform |-> tr,
     transparentRegionHint |-> hint, layerStackId |-> stack,
     internalOnly |-> internal]

DefaultFEState == FEState(TRUE, FALSE, FALSE, IdentityTransform, {}, 0, FALSE)

HiddenFEState == FEState(FALSE, FALSE, FALSE, IdentityTransform, {}, 0, FALSE)

\* The states of a layer that is visible and on layer stack 0.  An opaque
\* layer has clean or dirty content, or is translated or generally
\* transformed; a translucent layer is translated, or has a hint that makes
\* it transparent in part or in whole.
VisibleFEStates ==
    {FEState(TRUE, TRUE, d, IdentityTransform, {}, 0, FALSE) : d \in BOOLEAN}
    \cup {FEState(TRUE, TRUE, FALSE, tr, {}, 0, FALSE) : tr \in LayerTransforms}
    \cup {FEState(TRUE, FALSE, FALSE, Transform(tx, FALSE), {}, 0, FALSE) :
            tx \in 0..MaxShift}
    \cup {FEState(TRUE, FALSE, FALSE, IdentityTransform, h, 0, FALSE) :
            h \in TransparentHints}

\* The states of a layer that is hidden or on another layer stack.
OtherFEStates ==
    {HiddenFEState,
     FEState(TRUE, FALSE, FALSE, IdentityTransform, {}, 1, FALSE)}

FEStates == VisibleFEStates \cup OtherFEStates

\* A small set of states: hidden, opaque and translated, and translucent
\* with dirty content, for internal outputs only.
BasicFEStates ==
    {HiddenFEState,
     FEState(TRUE, TRUE, FALSE, Transform(MaxShift, FALSE), {}, 0, FALSE),
     FEState(TRUE, FALSE, TRUE, IdentityTransform, {}, 0, TRUE)}

(***************************************************************************)
(* Output layers (OutputLayerCompositionState, the part the pass writes).  *)
(* A moved-from unique_ptr in mOutputLayersOrderedByZ is NullOutputLayer.  *)
(***************************************************************************)
NoLayer == 0

\* layer->getHwcLayer() of an output layer without a HWC layer; the HWC
\* layer of an output layer that has one is named by the number of its layer.
NoHwcLayer == 0

\* The output layers of an output that is no display have no HWC layer.
OutputLayer(layer, z, visible, visibleNonTransparent, covered, outputSpace) ==
    [layer |-> layer, z |-> z, visibleRegion |-> visible,
     visibleNonTransparentRegion |-> visibleNonTransparent,
     coveredRegion |-> covered, outputSpaceVisibleRegion |-> outputSpace,
     hwcLayer |-> NoHwcLayer, hwcCompositionType |-> "CLIENT",
     clearClientTarget |-> FALSE]

NullOutputLayer == OutputLayer(NoLayer, 0, {}, {}, {}, {})

\* impl::createOutputLayer: a fresh output layer with default state.
createOutputLayer(layer) == OutputLayer(layer, 0, {}, {}, {}, {})

(***************************************************************************)
(* Inputs of the setters.                                                  *)
(***************************************************************************)
DisplaySizes == 2..MaxSize

\* The arguments of setProjection.
Projection(tx, viewport) ==
    [transform |-> Transform(tx, FALSE), orientation |-> 0,
     frame |-> viewport, viewport |-> viewport, scissor |-> viewport,
     needsFiltering |-> FALSE]
Projections == {Projection(0, <<0, MaxSize>>), Projection(MaxShift, <<0, 2>>)}

\* layerStackId of an output that was given no layer stack yet.
NoLayerStack == -1
LayerStackFilters == {<<0, TRUE>>, <<0, FALSE>>}

\* Color profiles (mode, dataspace, render intent, agnostic dataspace) and
\* color transform matrices are opaque values.
ColorProfile(mode, dataspace, intent, agnostic) ==
    [mode |-> mode, dataspace |-> dataspace, renderIntent |-> intent,
     colorSpaceAgnosticDataspace |-> agnostic]
ColorProfiles ==
    {ColorProfile("NATIVE", "UNKNOWN", "COLORIMETRIC", "UNKNOWN"),
     ColorProfile("DISPLAY_P3", "DISPLAY_P3", "COLORIMETRIC", "UNKNOWN")}
ColorMatrices == {"identity", "tint"}
NoMatrix == "none"

(***************************************************************************)
(* The program state.                                                      *)
(***************************************************************************)
VARIABLES
    mState,                  \* Output::mState (OutputCompositionState)
    mOutputLayersOrderedByZ, \* Output::mOutputLayersOrderedByZ
    feState,                 \* Layer::getFEState() of every layer
    layers,                  \* refreshArgs.layers of the current frame
    geomSnapshots,           \* the frame's LayerFESet: the layers latched
    pc,                      \* position of the composition thread
    calls                    \* calls made to collaborators by the last step

VARIABLES
    mId,                     \* Display::mId: whether the display has a HWC id
    mIsVirtual,              \* Display::mIsVirtual
    mReleasedLayers,         \* Output::mReleasedLayers
    expired,                 \* the released layers whose front-end is gone
    bestDataSpace,           \* what getBestDataspace gave pickColorProfile
    displayCalls             \* calls of the last step, with their fences

displayVars == <<mId, mIsVirtual, mReleasedLayers, expired, bestDataSpace, displayCalls>>

outputVars == <<mState, mOutputLayersOrderedByZ, feState, layers, geomSnapshots, pc, calls,
                displayVars>>

VARIABLES
    mFeatures,               \* Scheduler::mFeatures
    mRefreshRateConfigs,     \* Scheduler::mRefreshRateConfigs
    mForceHDRContentToDefaultRefreshRate,
    mChangeRefreshRateCallback, \* TRUE when a callback is registered
    mFeatureStateLock,       \* the thread holding the mutex, or NoThread
    mCallbackLock,           \* the thread holding the mutex, or NoThread
    threads,                 \* position of every thread calling the scheduler
    callbackLog              \* arguments of the last callback invocation

featureVars == <<mFeatures, mRefreshRateConfigs, mForceHDRContentToDefaultRefreshRate,
                 mChangeRefreshRateCallback, mFeatureStateLock, mCallbackLock,
                 threads, callbackLog>>

VARIABLES
    mPrimaryHWVsyncEnabled,  \* Scheduler::mPrimaryHWVsyncEnabled
    mHWVsyncAvailable,       \* Scheduler::mHWVsyncAvailable
    mLastResyncTime,         \* Scheduler::mLastResyncTime
    now,                     \* systemTime()
    periodFlushed,           \* out-parameter of the last addResyncSample
    vsyncCalls,              \* calls made by the last scheduler step
    mSupportKernelTimer,     \* Scheduler::mSupportKernelTimer
    vsyncThreads             \* position of every thread in a vsync operation

vsyncVars == <<mPrimaryHWVsyncEnabled, mHWVsyncAvailable, mLastResyncTime, now,
               periodFlushed, vsyncCalls, mSupportKernelTimer, vsyncThreads>>

VARIABLES
    mConnections,            \* Scheduler::mConnections: handle id -> event thread
    mNextConnectionHandleId, \* Scheduler::mNextConnectionHandleId
    connectionCalls          \* what the last connection operation returned or called

connectionVars == <<mConnections, mNextConnectionHandleId, connectionCalls>>

schedulerVars == <<featureVars, vsyncVars, connectionVars>>

vars == <<outputVars, schedulerVars>>

(***************************************************************************)
(* Queries.                                                                *)
(***************************************************************************)
\* The dirty region with every point outside the viewport included.
getDirtyRegionUnclipped(st, repaintEverything) ==
    IF repaintEverything THEN RectRegion(st.viewport)
    ELSE st.dirtyRegion

\* Output::getDirtyRegion
getDirtyRegion(st, repaintEverything) ==
    IF repaintEverything THEN RectRegion(st.viewport)
    ELSE RectRegion(st.viewport) \cap st.dirtyRegion

\* Output::belongsInOutput(layerStackId, internalOnly)
belongsInOutput(st, fe) ==
    /\ fe.layerStackId = st.layerStackId
    /\ (~fe.internalOnly \/ st.layerStackInternal)

\* Variant of dirtyEntireOutput that dirties the viewport, not the bounds.
dirtyEntireOutputViewport(st) == [st EXCEPT !.dirtyRegion = RectRegion(st.viewport)]

\* Output::dirtyEntireOutput
dirtyEntireOutput(st) == [st EXCEPT !.dirtyRegion = RectRegion(st.bounds)]

(***************************************************************************)
(* The ordered list of output layers.                                      *)
(***************************************************************************)
\* Index of the first non-null output layer of the layer, 0 if none.
FindOutputLayer(list, layer) ==
    IF \E i \in 1..Len(list) : list[i].layer = layer
    THEN MinOf({i \in 1..Len(list) : list[i].layer = layer})
    ELSE 0

\* Variant of takeOutputLayerForLayer that never finds the layer.
takeOutputLayerForLayerNotFound(list, layer) == <<NullOutputLayer, list>>

\* Output::takeOutputLayerForLayer: moves the output layer out of the list
\* and leaves a null entry.  Gives <<taken or null, list afterwards>>.
takeOutputLayerForLayer(list, layer) ==
    LET i == FindOutputLayer(list, layer)
    IN IF i = 0 THEN <<NullOutputLayer, list>>
       ELSE <<list[i], [list EXCEPT ![i] = NullOutputLayer]>>

Reverse(s) == [i \in 1..Len(s) |-> s[Len(s) + 1 - i]]

(***************************************************************************)
(* The visibility and coverage pass.                                       *)
(***************************************************************************)
\* Variant of IsHidden without the isVisible test.
IsHiddenUnchecked(fe) == FALSE

\* A hidden surface: it gets no output layer.
IsHidden(fe) == ~fe.isVisible

\* The footprint of a layer in layer-stack space:
\* visibleRegion.set(Rect(tr.transform(geomLayerBounds))).
LayerFootprint(fe) ==
    RectRegion(TransformRect(fe.geomLayerTransform, fe.geomLayerBounds))

\* The transparent region of a layer: the transformed hint of a layer that
\* is not opaque and whose transform preserves rects, else empty.
TransparentRegion(fe) ==
    IF ~fe.isOpaque /\ PreserveRects(fe.geomLayerTransform)
    THEN TransformRegion(fe.geomLayerTransform, fe.transparentRegionHint)
    ELSE {}

\* Variant of OpaqueRegion in which no layer is opaque.
OpaqueRegionEmpty(fe, footprint) == {}

\* The opaque region of a layer: its footprint if the layer is opaque and
\* its transform is a simple one, else empty.
OpaqueRegion(fe, footprint) ==
    IF fe.isOpaque /\ ~OrientationInvalid(fe.geomLayerTransform)
    THEN footprint
    ELSE {}

\* Variant of LayerDirtyRegion that invalidates the layer whether or not its
\* content is dirty.
LayerDirtyRegionAlways(fe, visibleRegion, coveredRegion, oldVisibleRegion, oldCoveredRegion) ==
    visibleRegion \cup oldVisibleRegion

\* The dirty region of one layer, before the opaque layers above it are
\* subtracted.
LayerDirtyRegion(fe, visibleRegion, coveredRegion, oldVisibleRegion, oldCoveredRegion) ==
    IF fe.contentDirty
    THEN visibleRegion \cup oldVisibleRegion
    ELSE LET newExposed == visibleRegion \ coveredRegion
             oldExposed == oldVisibleRegion \ oldCoveredRegion
         IN (visibleRegion \cap oldCoveredRegion) \cup (newExposed \ oldExposed)

\* The region of the layer that is drawn on the output; the layer gets an
\* output layer only if it is not empty.
DrawRegion(st, visibleNonTransparentRegion) ==
    TransformRegion(st.transform, visibleNonTransparentRegion) \cap RectRegion(st.bounds)

\* Variant of StoreCoverage that stores the two visible regions the wrong
\* way round.
StoreCoverageSwapped(st, outputLayer, visibleRegion, visibleNonTransparentRegion, coveredRegion) ==
    [outputLayer EXCEPT
        !.visibleRegion = visibleNonTransparentRegion,
        !.visibleNonTransparentRegion = visibleRegion,
        !.coveredRegion = coveredRegion,
        !.outputSpaceVisibleRegion =
            TransformRegion(st.transform, visibleRegion \cap RectRegion(st.viewport))]

\* What the pass stores into the output layer it emits.
StoreCoverage(st, outputLayer, visibleRegion, visibleNonTransparentRegion, coveredRegion) ==
    [outputLayer EXCEPT
        !.visibleRegion = visibleRegion,
        !.visibleNonTransparentRegion = visibleNonTransparentRegion,
        !.coveredRegion = coveredRegion,
        !.outputSpaceVisibleRegion =
            TransformRegion(st.transform, visibleRegion \cap RectRegion(st.viewport))]

\* compositionengine::Output::CoverageState of a frame, together with the
\* other objects the pass works on: the front-end states it latches (fe),
\* the old list it takes output layers from (old), the list it emits (out),
\* the output layer returned for the last layer (result) and the numbers of
\* output layers created and destroyed.
InitialCoverage(fe, latched, old) ==
    [fe |-> fe, latchedLayers |-> latched, aboveOpaqueLayers |-> {},
     aboveCoveredLayers |-> {}, dirtyRegion |-> {}, old |-> old, out |-> <<>>,
     result |-> NullOutputLayer, created |-> 0, destroyed |-> 0]

\* Output::getOutputLayerIfVisible.  promoted: the layers whose front-end
\* still exists; latchInput: what a latch of a layer's front-end stores.
getOutputLayerIfVisible(layer, st, c, promoted, latchInput) ==
    IF layer \notin promoted THEN [c EXCEPT !.result = NullOutputLayer]
    ELSE
    LET c1 == IF layer \in c.latchedLayers THEN c
              ELSE [c EXCEPT !.latchedLayers = @ \cup {layer},
                             !.fe[layer] = latchInput[layer]]
        fe == c1.fe[layer]
        footprint == LayerFootprint(fe)
        transparentRegion == TransparentRegion(fe)
        opaqueRegion == OpaqueRegion(fe, footprint)
        coveredRegion == c1.aboveCoveredLayers \cap footprint
        c2 == [c1 EXCEPT !.aboveCoveredLayers = @ \cup footprint]
        visibleRegion == footprint \ c1.aboveOpaqueLayers
        taken == takeOutputLayerForLayer(c2.old, layer)
        prevOutputLayer == taken[1]
        hasPrev == prevOutputLayer.layer # NoLayer
        oldVisibleRegion == IF hasPrev THEN prevOutputLayer.visibleRegion ELSE {}
        oldCoveredRegion == IF hasPrev THEN prevOutputLayer.coveredRegion ELSE {}
        dirty == LayerDirtyRegion(fe, visibleRegion, coveredRegion,
                                  oldVisibleRegion, oldCoveredRegion)
                 \ c1.aboveOpaqueLayers
        c3 == [c2 EXCEPT !.old = taken[2],
                         !.dirtyRegion = @ \cup dirty,
                         !.aboveOpaqueLayers = @ \cup opaqueRegion]
        visibleNonTransparentRegion == visibleRegion \ transparentRegion
        result == StoreCoverage(st,
                      IF hasPrev THEN prevOutputLayer ELSE createOutputLayer(layer),
                      visibleRegion, visibleNonTransparentRegion, coveredRegion)
    IN  IF ~belongsInOutput(st, fe) THEN [c1 EXCEPT !.result = NullOutputLayer]
        ELSE IF IsHidden(fe) THEN [c1 EXCEPT !.result = NullOutputLayer]
        ELSE IF footprint = {} THEN [c1 EXCEPT !.result = NullOutputLayer]
        ELSE IF visibleRegion = {} THEN [c2 EXCEPT !.result = NullOutputLayer]
        ELSE IF DrawRegion(st, visibleNonTransparentRegion) = {}
             THEN [c3 EXCEPT !.result = NullOutputLayer,
                             !.destroyed = @ + (IF hasPrev THEN 1 ELSE 0)]
        ELSE [c3 EXCEPT !.result = result,
                        !.created = @ + (IF hasPrev THEN 0 ELSE 1)]

\* Variant of EmplaceIfVisible that appends the result without testing it.
EmplaceAlways(layer, st, c, promoted, latchInput) ==
    LET c1 == getOutputLayerIfVisible(layer, st, c, promoted, latchInput)
    IN [c1 EXCEPT !.out = Append(c1.out, c1.result)]

\* The loop body of collectVisibleLayers: the output layer is appended to
\* the new list if there is one.
EmplaceIfVisible(layer, st, c, promoted, latchInput) ==
    LET c1 == getOutputLayerIfVisible(layer, st, c, promoted, latchInput)
    IN IF c1.result.layer # NoLayer THEN [c1 EXCEPT !.out = Append(@, c1.result)]
       ELSE c1

\* The loop of collectVisibleLayers over the layers, front to back.
RECURSIVE WalkFrontToBack(_, _, _, _, _)
WalkFrontToBack(frontToBack, st, c, promoted, latchInput) ==
    IF frontToBack = <<>> THEN c
    ELSE WalkFrontToBack(Tail(frontToBack), st,
             EmplaceIfVisible(Head(frontToBack), st, c, promoted, latchInput),
             promoted, latchInput)

\* The z-order values given to the new list, 0 upwards.
AssignZ(list) == [i \in 1..Len(list) |-> [list[i] EXCEPT !.z = i - 1]]

\* Variant of BackToFront that leaves the list front to back.
BackToFrontUnreversed(out) == out

\* The new list in back-to-front order.
BackToFront(out) == Reverse(out)

NonNull(list) == {i \in 1..Len(list) : list[i].layer # NoLayer}

\* Output::collectVisibleLayers: the coverage after the walk, with out the
\* new mOutputLayersOrderedByZ; the output layers left in the old list are
\* destroyed when the list is overwritten.
collectVisibleLayers(argLayers, st, c, promoted, latchInput) ==
    LET c1 == WalkFrontToBack(Reverse(argLayers), st, c, promoted, latchInput)
    IN [c1 EXCEPT !.out = AssignZ(BackToFront(c1.out)),
                  !.destroyed = @ + Cardinality(NonNull(c1.old))]

\* The state written by rebuildLayerStacks after the pass.
StoreCoverageInState(st, c) ==
    [st EXCEPT
        !.undefinedRegion =
            RectRegion(st.bounds) \ TransformRegion(st.transform, c.aboveOpaqueLayers),
        !.dirtyRegion = @ \cup c.dirtyRegion]

\* Whether rebuildLayerStacks runs the pass.
RunsPass(st, updatingOutputGeometryThisFrame) ==
    st.isEnabled /\ updatingOutputGeometryThisFrame

(***************************************************************************)
(* Setters of the output state.                                            *)
(***************************************************************************)
\* Output::setCompositionEnabled
setCompositionEnabled(st, enabled) ==
    IF st.isEnabled = enabled THEN st
    ELSE dirtyEntireOutput([st EXCEPT !.isEnabled = enabled])

\* Output::setProjection
setProjection(st, p) ==
    dirtyEntireOutput([st EXCEPT !.transform = p.transform,
                                 !.orientation = p.orientation,
                                 !.scissor = p.scissor,
                                 !.frame = p.frame,
                                 !.viewport = p.viewport,
                                 !.needsFiltering = p.needsFiltering])

\* Output::setBounds; the render surface reports the size it was given.
setBounds(st, size) == dirtyEntireOutput([st EXCEPT !.bounds = <<0, size>>])

\* Output::setLayerStackFilter
setLayerStackFilter(st, layerStackId, isInternal) ==
    dirtyEntireOutput([st EXCEPT !.layerStackId = layerStackId,
                                 !.layerStackInternal = isInternal])

\* Output::setColorTransform(const CompositionRefreshArgs&)
setColorTransform(st, matrix) ==
    IF matrix = NoMatrix \/ st.colorTransformMatrix = matrix THEN st
    ELSE dirtyEntireOutput([st EXCEPT !.colorTransformMatrix = matrix])

\* DisplayColorProfile::getTargetDataspace, as far as the output depends on
\* it: a function of the profile.
getTargetDataspace(p) == p.colorSpaceAgnosticDataspace

\* Whether setColorProfile finds the profile already set.
SameColorProfile(st, p) ==
    /\ st.colorMode = p.mode
    /\ st.dataspace = p.dataspace
    /\ st.renderIntent = p.renderIntent
    /\ st.targetDataspace = getTargetDataspace(p)

\* Output::setColorProfile
setColorProfile(st, p) ==
    IF SameColorProfile(st, p) THEN st
    ELSE dirtyEntireOutput([st EXCEPT !.colorMode = p.mode,
                                      !.dataspace = p.dataspace,
                                      !.renderIntent = p.renderIntent,
                                      !.targetDataspace = getTargetDataspace(p)])

(***************************************************************************)
(* The per-frame phases, as functions of the state.  A phase gives the new *)
(* output state (st) and the calls it makes to its collaborators (calls),  *)
(* each call a pair <<name, argument>>.                                    *)
(***************************************************************************)
B2N(b) == IF b THEN 1 ELSE 0

Effect(st, cs) == [st |-> st, calls |-> cs]

\* Variant of MustRecompose that never recomposes an empty list.
MustRecomposeNeverEmpty(st, list) ==
    getDirtyRegion(st, FALSE) # {} /\ list # <<>>

\* Variant of MustRecompose without the rule for an empty list.
MustRecomposeWhenDirty(st, list) == getDirtyRegion(st, FALSE) # {}

\* Whether beginFrame recomposes.
MustRecompose(st, list) ==
    LET dirty == getDirtyRegion(st, FALSE) # {}
        empty == list = <<>>
        wasEmpty == ~st.lastCompositionHadVisibleLayers
    IN dirty /\ ~(empty /\ wasEmpty)

\* Variant of beginFrame that records the visible layers whether or not it
\* recomposes.
beginFrameUnguarded(st, list) ==
    Effect([st EXCEPT !.lastCompositionHadVisibleLayers = (list # <<>>)],
           {<<"RenderSurface.beginFrame", B2N(MustRecompose(st, list))>>})

\* Output::beginFrame
beginFrame(st, list) ==
    LET mustRecompose == MustRecompose(st, list)
    IN Effect(IF mustRecompose
              THEN [st EXCEPT !.lastCompositionHadVisibleLayers = (list # <<>>)]
              ELSE st,
              {<<"RenderSurface.beginFrame", B2N(mustRecompose)>>})

\* Output::chooseCompositionStrategy: the base output composes on the client.
chooseCompositionStrategy(st) ==
    [st EXCEPT !.usesClientComposition = TRUE, !.usesDeviceComposition = FALSE]

\* Output::prepareFrame
prepareFrame(st) ==
    IF ~st.isEnabled THEN Effect(st, {})
    ELSE LET st1 == chooseCompositionStrategy(st)
         IN Effect(st1, {<<"RenderSurface.prepareFrame",
                           2 * B2N(st1.usesClientComposition)
                             + B2N(st1.usesDeviceComposition)>>})

\* OutputLayer::requiresClientComposition
requiresClientComposition(outputLayer) ==
    outputLayer.hwcLayer = NoHwcLayer \/ outputLayer.hwcCompositionType = "CLIENT"

\* generateClientCompositionRequests clearing the client target for the
\* first layer as for any other.
RECURSIVE generateClientCompositionRequestsClearingFirst(_, _, _, _, _)
generateClientCompositionRequestsClearingFirst(st, list, fe, prepared, n) ==
    IF n = 0 THEN <<>>
    ELSE LET before == generateClientCompositionRequestsClearingFirst(
                           st, list, fe, prepared, n - 1)
             layer == list[n]
             clip == RectRegion(st.viewport) \cap layer.visibleRegion
             clientComposition == requiresClientComposition(layer)
             clearClientComposition ==
                 layer.clearClientTarget /\ fe[layer.layer].isOpaque
         IN  IF clip = {} THEN before
             ELSE IF clientComposition \/ clearClientComposition
             THEN Append(before, [layer |-> layer.layer,
                                  clear |-> ~clientComposition,
                                  result |-> layer.layer \in prepared])
             ELSE before

\* Output::generateClientCompositionRequests, the loop over the first n
\* output layers: the calls of LayerFE::prepareClientComposition in order,
\* each with whether its settings are turned into a clear (no buffer, black,
\* alpha 0, blending disabled) and whether the front-end returned settings
\* (prepared: the layers whose front-end does), which are then pushed to
\* clientCompositionLayers.  firstLayer holds at the first output layer only.
RECURSIVE generateClientCompositionRequests(_, _, _, _, _)
generateClientCompositionRequests(st, list, fe, prepared, n) ==
    IF n = 0 THEN <<>>
    ELSE LET before == generateClientCompositionRequests(st, list, fe, prepared, n - 1)
             layer == list[n]
             clip == RectRegion(st.viewport) \cap layer.visibleRegion
             firstLayer == n = 1
             clientComposition == requiresClientComposition(layer)
             clearClientComposition ==
                 layer.clearClientTarget /\ fe[layer.layer].isOpaque /\ ~firstLayer
         IN  IF clip = {} THEN before
             ELSE IF clientComposition \/ clearClientComposition
             THEN Append(before, [layer |-> layer.layer,
                                  clear |-> ~clientComposition,
                                  result |-> layer.layer \in prepared])
             ELSE before

\* DisplayColorProfile::hasWideColorGamut() of the display modelled.
hasWideColorGamut == TRUE

\* Output::composeSurfaces.  fence: whether a ready fence is returned.
composeSurfaces(st, list, fe, dequeued) ==
    IF ~st.usesClientComposition THEN [fence |-> TRUE, calls |-> {}]
    ELSE LET outputDataspace == IF hasWideColorGamut THEN st.dataspace ELSE "UNKNOWN"
             clientCompositionLayers ==
                 generateClientCompositionRequests(st, list, fe, Layers, Len(list))
             requests == {<<"LayerFE.prepareClientComposition",
                            clientCompositionLayers[i].layer>> :
                             i \in DOMAIN clientCompositionLayers}
                         \cup {<<"RenderSurface.dequeueBuffer", B2N(dequeued)>>}
             expensiveRenderingExpected == outputDataspace = "DISPLAY_P3"
         IN IF ~dequeued THEN [fence |-> FALSE, calls |-> requests]
            ELSE [fence |-> TRUE,
                  calls |-> requests
                            \cup (IF expensiveRenderingExpected
                                  THEN {<<"Output.setExpensiveRenderingExpected", 1>>,
                                        <<"Output.setExpensiveRenderingExpected", 0>>}
                                  ELSE {})
                            \cup {<<"RenderEngine.drawLayers", 0>>}]

\* finishFrame that queues the buffer whatever composeSurfaces returns.
finishFrameAlwaysQueues(st, list, fe, dequeued) ==
    IF ~st.isEnabled THEN Effect(st, {})
    ELSE LET composed == composeSurfaces(st, list, fe, dequeued)
         IN Effect(st, composed.calls \cup {<<"RenderSurface.queueBuffer", 0>>})

\* Output::finishFrame
finishFrame(st, list, fe, dequeued) ==
    IF ~st.isEnabled THEN Effect(st, {})
    ELSE LET composed == composeSurfaces(st, list, fe, dequeued)
         IN Effect(st, composed.calls \cup
                       (IF composed.fence THEN {<<"RenderSurface.queueBuffer", 0>>}
                        ELSE {}))

\* Variant of postFramebuffer without the isEnabled test.
postFramebufferUnchecked(st, list) ==
    Effect([st EXCEPT !.dirtyRegion = {}],
           {<<"RenderSurface.flip", 0>>,
            <<"Output.presentAndGetFrameFences", 0>>,
            <<"RenderSurface.onPresentDisplayCompleted", 0>>}
           \cup {<<"LayerFE.onLayerDisplayed", list[i].layer>> :
                    i \in 1..Len(list)})

\* Variant of postFramebuffer that returns when nothing is dirty.
postFramebufferIfDirty(st, list) ==
    IF ~st.isEnabled \/ getDirtyRegion(st, FALSE) = {} THEN Effect(st, {})
    ELSE postFramebufferUnchecked(st, list)

\* postFramebuffer that leaves dirtyRegion as it is.
postFramebufferKeepingDirtyRegion(st, list) ==
    IF ~st.isEnabled THEN Effect(st, {})
    ELSE Effect(st,
                {<<"RenderSurface.flip", 0>>,
                 <<"Output.presentAndGetFrameFences", 0>>,
                 <<"RenderSurface.onPresentDisplayCompleted", 0>>}
                \cup {<<"LayerFE.onLayerDisplayed", list[i].layer>> :
                         i \in 1..Len(list)})

\* Output::postFramebuffer
postFramebuffer(st, list) ==
    IF ~st.isEnabled THEN Effect(st, {})
    ELSE Effect([st EXCEPT !.dirtyRegion = {}],
                {<<"RenderSurface.flip", 0>>,
                 <<"Output.presentAndGetFrameFences", 0>>,
                 <<"RenderSurface.onPresentDisplayCompleted", 0>>}
                \cup {<<"LayerFE.onLayerDisplayed", list[i].layer>> :
                         i \in 1..Len(list)})

\* Output::devOptRepaintFlash
devOptRepaintFlash(st, list, fe, flash, repaintEverything, dequeued) ==
    IF ~flash THEN Effect(st, {})
    ELSE LET dirtyRegion == getDirtyRegion(st, repaintEverything)
             composed == IF st.isEnabled /\ dirtyRegion # {}
                         THEN composeSurfaces(st, list, fe, dequeued).calls
                              \cup {<<"RenderSurface.queueBuffer", 0>>}
                         ELSE {}
             posted == postFramebuffer(st, list)
             prepared == prepareFrame(posted.st)
         IN Effect(prepared.st, composed \cup posted.calls \cup prepared.calls)

(***************************************************************************)
(* Inputs of a frame.                                                      *)
(***************************************************************************)
Range(f) == {f[i] : i \in DOMAIN f}

\* refreshArgs.layers: the layers back to front, each at most once.
LayerLists ==
    {ls \in UNION {[1..n -> Layers] : n \in 0..NumLayers} :
        \A i, j \in DOMAIN ls : i # j => ls[i] # ls[j]}

\* What a pass finds: the layers whose front-end still exists (promoted) and
\* the layers already latched in this frame for another output (latched).
\* Layer 1 may be expired or already latched.
AllPromoted == [promoted |-> Layers, latched |-> {}]
PassInputs ==
    {AllPromoted,
     [promoted |-> Layers \ {1}, latched |-> {}],
     [promoted |-> Layers, latched |-> {1}]}

\* The front-end states after a latch of the layers in toLatch.
Latched(fe, toLatch, stored) ==
    [l \in Layers |-> IF l \in toLatch THEN stored[l] ELSE fe[l]]

LatchCalls(ls) == {<<"LayerFE.latchCompositionState", l>> : l \in ls}

(***************************************************************************)
(* Initial state: the output as constructed and given a render surface of  *)
(* the smallest size (setRenderSurface sets the bounds and dirties the     *)
(* output); nothing else is set.                                           *)
(***************************************************************************)
ConstructedState ==
    [isEnabled |-> FALSE, bounds |-> EmptyRect, viewport |-> EmptyRect,
     frame |-> EmptyRect, scissor |-> EmptyRect, transform |-> IdentityTransform,
     orientation |-> 0, needsFiltering |-> FALSE,
     layerStackId |-> NoLayerStack, layerStackInternal |-> FALSE,
     colorMode |-> "NATIVE", dataspace |-> "UNKNOWN",
     renderIntent |-> "COLORIMETRIC", targetDataspace |-> "UNKNOWN",
     colorTransformMatrix |-> "identity",
     dirtyRegion |-> {}, undefinedRegion |-> {},
     usesClientComposition |-> FALSE, usesDeviceComposition |-> FALSE,
     flipClientTarget |-> FALSE,
     lastCompositionHadVisibleLayers |-> FALSE]

\* Output::setRenderSurface
setRenderSurface(st, size) == dirtyEntireOutput([st EXCEPT !.bounds = <<0, size>>])

(***************************************************************************)
(* The display (Display.cpp): an output bound to a hardware composer.      *)
(***************************************************************************)
CompositionTypes == {"CLIENT", "DEVICE"}

\* The dataspaces of the layers shown.
LayerDataspaces == {"V0_SRGB", "DISPLAY_P3", "BT2020", "BT2020_PQ", "BT2020_HLG"}

\* An output layer of a display: its layer, its HWC layer and the state the
\* composition strategy and the color profile read.
DisplayOutputLayer(layer, hwcLayer, type, dataspace) ==
    [layer |-> layer, hwcLayer |-> hwcLayer, hwcCompositionType |-> type,
     clearClientTarget |-> FALSE, dataspace |-> dataspace,
     forceClientComposition |-> FALSE]

\* The lists of output layers, back to front, made of the given layers.
ListsOf(OutputLayers) ==
    {ls \in UNION {[1..n -> OutputLayers] : n \in 0..NumLayers} :
        \A i, j \in DOMAIN ls : i # j => ls[i].layer # ls[j].layer}

\* The output layers a display can hold, with or without a HWC layer.
DisplayLayerLists ==
    ListsOf({DisplayOutputLayer(l, NoHwcLayer, "CLIENT", "V0_SRGB") : l \in Layers}
            \cup {DisplayOutputLayer(l, l, type, "V0_SRGB") :
                     l \in Layers, type \in CompositionTypes})

\* The HDR dataspaces among them.
HdrDataspaces == {"BT2020_PQ", "BT2020_HLG"}

\* The output layers of every dataspace, those with HDR content forced to
\* client composition or not.
DataspaceLayerLists ==
    ListsOf({DisplayOutputLayer(l, l, "DEVICE", d) : l \in Layers, d \in LayerDataspaces}
            \cup {[DisplayOutputLayer(l, l, "DEVICE", d) EXCEPT
                      !.forceClientComposition = TRUE] :
                     l \in Layers, d \in HdrDataspaces})

\* Fences are sets of signals: NO_FENCE is the empty set and Fence::merge
\* the union.
NO_FENCE == {}
merge(f1, f2) == f1 \cup f2

\* Display::anyLayersRequireClientComposition
anyLayersRequireClientComposition(list) ==
    \E i \in DOMAIN list : requiresClientComposition(list[i])

\* allLayersRequireClientComposition that is false of no layers.
allLayersRequireClientCompositionOfSome(list) ==
    /\ list # <<>>
    /\ \A i \in DOMAIN list : requiresClientComposition(list[i])

\* Display::allLayersRequireClientComposition
allLayersRequireClientComposition(list) ==
    \A i \in DOMAIN list : requiresClientComposition(list[i])

\* Display::applyChangedTypesToLayers; changedTypes maps HWC layers to types.
applyChangedTypesToLayers(list, changedTypes) ==
    [i \in DOMAIN list |->
        IF list[i].hwcLayer # NoHwcLayer /\ list[i].hwcLayer \in DOMAIN changedTypes
        THEN [list[i] EXCEPT !.hwcCompositionType = changedTypes[list[i].hwcLayer]]
        ELSE list[i]]

\* Display::applyDisplayRequests; displayRequests holds FlipClientTarget or not.
applyDisplayRequests(st, displayRequests) ==
    [st EXCEPT !.flipClientTarget = displayRequests]

\* applyLayerRequestsToLayers without prepareForDeviceLayerRequests.
applyLayerRequestsToLayersUnprepared(list, layerRequests) ==
    [i \in DOMAIN list |->
        [list[i] EXCEPT !.clearClientTarget =
            @ \/ (list[i].hwcLayer # NoHwcLayer /\ list[i].hwcLayer \in layerRequests)]]

\* Display::applyLayerRequestsToLayers; layerRequests is the set of the HWC
\* layers asked to clear the client target.  prepareForDeviceLayerRequests
\* clears the flag, applyDeviceLayerRequest sets it.
applyLayerRequestsToLayers(list, layerRequests) ==
    [i \in DOMAIN list |->
        [list[i] EXCEPT !.clearClientTarget =
            list[i].hwcLayer # NoHwcLayer /\ list[i].hwcLayer \in layerRequests]]

\* What HWComposer::getDeviceCompositionChanges answers: a status and, when
\* changes is set, the changes the device requests.
DeviceRequestedChanges(error, changes, changedTypes, displayRequests, layerRequests) ==
    [error |-> error, changes |-> changes, changedTypes |-> changedTypes,
     displayRequests |-> displayRequests, layerRequests |-> layerRequests]

\* The answers of the composer: an error, which leaves the changes it had
\* gathered unused, no change, or changes.
HwcAnswers ==
    {DeviceRequestedChanges(TRUE, TRUE, changedTypes, TRUE, {1}) :
        changedTypes \in [Layers -> CompositionTypes]}
    \cup {DeviceRequestedChanges(FALSE, FALSE, <<>>, FALSE, {})}
    \cup {DeviceRequestedChanges(FALSE, TRUE, changedTypes, flip, clear) :
            changedTypes \in UNION {[hs -> CompositionTypes] : hs \in SUBSET Layers},
            flip \in BOOLEAN, clear \in {{}, {1}}}

\* The out-parameter of getDeviceCompositionChanges in the log of the step:
\* whether it is set, and the HWC layers of its layer requests.
OutChanges(answer) ==
    IF ~answer.changes THEN {}
    ELSE {<<"changes", 0>>} \cup {<<"clearClientTarget", h>> : h \in answer.layerRequests}

\* The concatenation of a sequence of sequences.
RECURSIVE Flatten(_)
Flatten(seqs) == IF seqs = <<>> THEN <<>> ELSE Head(seqs) \o Flatten(Tail(seqs))

\* The calls chooseCompositionStrategy makes on its output layers, in the
\* log of the step.
ChangeCalls(list, answer) ==
    Flatten([i \in DOMAIN list |->
        IF list[i].hwcLayer \in DOMAIN answer.changedTypes
        THEN << <<"OutputLayer.applyDeviceCompositionTypeChange", list[i].layer,
                  {<<answer.changedTypes[list[i].hwcLayer], 0>>}>> >>
        ELSE <<>>])
    \o Flatten([i \in DOMAIN list |->
        IF list[i].hwcLayer \in answer.layerRequests
        THEN << <<"OutputLayer.applyDeviceLayerRequest", list[i].layer, NO_FENCE>> >>
        ELSE <<>>])

\* Display::chooseCompositionStrategy deciding on the layers as they were
\* before the device changed their types.
Display_chooseCompositionStrategyBeforeChanges(st, list, hasId, answer) ==
    LET base == chooseCompositionStrategy(st)
        asked == << <<"HWComposer.getDeviceCompositionChanges", B2N(answer.error),
                     OutChanges(answer)>> >>
    IN  IF ~hasId THEN [st |-> base, list |-> list, calls |-> <<>>]
        ELSE IF answer.error THEN [st |-> base, list |-> list, calls |-> asked]
        ELSE LET applied == IF answer.changes
                            THEN applyLayerRequestsToLayers(
                                     applyChangedTypesToLayers(list, answer.changedTypes),
                                     answer.layerRequests)
                            ELSE list
                 requested == IF answer.changes
                              THEN applyDisplayRequests(base, answer.displayRequests)
                              ELSE base
             IN  [st |-> [requested EXCEPT
                            !.usesClientComposition =
                                anyLayersRequireClientComposition(list),
                            !.usesDeviceComposition =
                                ~allLayersRequireClientComposition(list)],
                  list |-> applied,
                  calls |-> asked \o (IF answer.changes THEN ChangeCalls(list, answer)
                                      ELSE <<>>)]

\* Display::chooseCompositionStrategy going on after an error of the composer.
Display_chooseCompositionStrategyIgnoringError(st, list, hasId, answer) ==
    LET base == chooseCompositionStrategy(st)
        asked == << <<"HWComposer.getDeviceCompositionChanges", B2N(answer.error),
                     OutChanges(answer)>> >>
    IN  IF ~hasId THEN [st |-> base, list |-> list, calls |-> <<>>]
        ELSE LET applied == IF answer.changes
                            THEN applyLayerRequestsToLayers(
                                     applyChangedTypesToLayers(list, answer.changedTypes),
                                     answer.layerRequests)
                            ELSE list
                 requested == IF answer.changes
                              THEN applyDisplayRequests(base, answer.displayRequests)
                              ELSE base
             IN  [st |-> [requested EXCEPT
                            !.usesClientComposition =
                                anyLayersRequireClientComposition(applied),
                            !.usesDeviceComposition =
                                ~allLayersRequireClientComposition(applied)],
                  list |-> applied,
                  calls |-> asked \o (IF answer.changes THEN ChangeCalls(list, answer)
                                      ELSE <<>>)]

\* Display::chooseCompositionStrategy: the state, the output layers and the
\* calls it leaves.  hasId: the display has a HWC display id.
Display_chooseCompositionStrategy(st, list, hasId, answer) ==
    LET base == chooseCompositionStrategy(st)
        asked == << <<"HWComposer.getDeviceCompositionChanges", B2N(answer.error),
                     OutChanges(answer)>> >>
    IN  IF ~hasId THEN [st |-> base, list |-> list, calls |-> <<>>]
        ELSE IF answer.error THEN [st |-> base, list |-> list, calls |-> asked]
        ELSE LET applied == IF answer.changes
                            THEN applyLayerRequestsToLayers(
                                     applyChangedTypesToLayers(list, answer.changedTypes),
                                     answer.layerRequests)
                            ELSE list
                 requested == IF answer.changes
                              THEN applyDisplayRequests(base, answer.displayRequests)
                              ELSE base
             IN  [st |-> [requested EXCEPT
                            !.usesClientComposition =
                                anyLayersRequireClientComposition(applied),
                            !.usesDeviceComposition =
                                ~allLayersRequireClientComposition(applied)],
                  list |-> applied,
                  calls |-> asked \o (IF answer.changes THEN ChangeCalls(list, answer)
                                      ELSE <<>>)]

\* Output::prepareFrame of a display.
Display_prepareFrame(st, list, hasId, answer) ==
    IF ~st.isEnabled THEN [st |-> st, list |-> list, calls |-> <<>>]
    ELSE LET chosen == Display_chooseCompositionStrategy(st, list, hasId, answer)
         IN  [chosen EXCEPT !.calls = @ \o
                 << <<"RenderSurface.prepareFrame",
                      2 * B2N(chosen.st.usesClientComposition)
                        + B2N(chosen.st.usesDeviceComposition), NO_FENCE>> >>]

\* Output::getBestDataspace: the data space, the HDR data space and whether
\* the HDR layer is composed by the client, after the loop over the output
\* layers from back to front.
RECURSIVE getBestDataspace(_, _)
getBestDataspace(list, n) ==
    IF n = 0
    THEN [bestDataSpace |-> "V0_SRGB", outHdrDataSpace |-> "UNKNOWN",
          outIsHdrClientComposition |-> FALSE]
    ELSE LET before == getBestDataspace(list, n - 1)
             dataspace == list[n].dataspace
         IN  IF dataspace \in {"V0_SCRGB", "V0_SCRGB_LINEAR", "BT2020", "BT2020_ITU",
                               "BT2020_LINEAR", "DISPLAY_BT2020"}
             THEN [before EXCEPT !.bestDataSpace = "DISPLAY_BT2020"]
             ELSE IF dataspace = "DISPLAY_P3"
             THEN [before EXCEPT !.bestDataSpace = "DISPLAY_P3"]
             ELSE IF dataspace \in {"BT2020_PQ", "BT2020_ITU_PQ"}
             THEN [bestDataSpace |-> "DISPLAY_P3", outHdrDataSpace |-> "BT2020_PQ",
                   outIsHdrClientComposition |-> list[n].forceClientComposition]
             ELSE IF dataspace \in {"BT2020_HLG", "BT2020_ITU_HLG"}
             THEN [before EXCEPT !.bestDataSpace = "DISPLAY_P3",
                                 !.outHdrDataSpace =
                                     IF @ = "UNKNOWN" THEN "BT2020_HLG" ELSE @]
             ELSE before

\* CompositionRefreshArgs, the part pickColorProfile reads.  A color setting
\* other than these three is a vendor setting, cast to a render intent.
OutputColorSettings == {"kUnmanaged", "kManaged", "kEnhanced", "kVendor"}
ForcedColorModes == {"NATIVE", "SRGB", "DISPLAY_P3"}
CompositionRefreshArgs(outputColorSetting, forceOutputColorMode) ==
    [outputColorSetting |-> outputColorSetting,
     forceOutputColorMode |-> forceOutputColorMode,
     colorSpaceAgnosticDataspace |-> "UNKNOWN"]

\* Output::pickColorProfile: the profile picked and the calls made.
\* hasLegacyHdrSupport: what the display color profile answers for the HDR
\* data space; bestColorMode: the mode, data space and render intent
\* getBestColorMode gives back.
pickColorProfile(list, refreshArgs, hasLegacyHdrSupport, bestColorMode) ==
    LET entered == << <<"Output.pickColorProfile", 0,
                        {<<refreshArgs.outputColorSetting, 0>>,
                         <<refreshArgs.forceOutputColorMode, 1>>}>> >>
    IN  IF refreshArgs.outputColorSetting = "kUnmanaged"
        THEN [profile |-> ColorProfile("NATIVE", "UNKNOWN", "COLORIMETRIC",
                                       refreshArgs.colorSpaceAgnosticDataspace),
              calls |-> entered]
        ELSE LET best == getBestDataspace(list, Len(list))
                 hdrDataSpace == best.outHdrDataSpace
                 isHdrClientComposition == best.outIsHdrClientComposition
                 forced == IF refreshArgs.forceOutputColorMode = "SRGB" THEN "V0_SRGB"
                           ELSE IF refreshArgs.forceOutputColorMode = "DISPLAY_P3"
                           THEN "DISPLAY_P3"
                           ELSE best.bestDataSpace
                 isHdr == /\ hdrDataSpace # "UNKNOWN"
                          /\ ~hasLegacyHdrSupport
                          /\ ~isHdrClientComposition
                 dataSpace == IF isHdr THEN hdrDataSpace ELSE forced
                 intent == IF refreshArgs.outputColorSetting = "kManaged"
                           THEN IF isHdr THEN "TONE_MAP_COLORIMETRIC" ELSE "COLORIMETRIC"
                           ELSE IF refreshArgs.outputColorSetting = "kEnhanced"
                           THEN IF isHdr THEN "TONE_MAP_ENHANCE" ELSE "ENHANCE"
                           ELSE "VENDOR"
             IN  [profile |-> ColorProfile(bestColorMode.mode, bestColorMode.dataspace,
                                           bestColorMode.renderIntent,
                                           refreshArgs.colorSpaceAgnosticDataspace),
                  calls |-> entered
                            \o (IF hdrDataSpace # "UNKNOWN"
                                THEN << <<"DisplayColorProfile.hasLegacyHdrSupport",
                                          B2N(hasLegacyHdrSupport),
                                          {<<hdrDataSpace, 0>>}>> >>
                                ELSE <<>>)
                            \o << <<"DisplayColorProfile.getBestColorMode", 0,
                                     {<<dataSpace, 0>>, <<intent, 1>>}>> >>]

\* Display::presentAndGetFrameFences, over Output::presentAndGetFrameFences:
\* the fences of the frame, layerFences a map from HWC layers.
presentAndGetFrameFences(st, list, hasId) ==
    LET handles == {list[i].hwcLayer : i \in DOMAIN list} \ {NoHwcLayer}
    IN  [presentFence |-> IF hasId THEN {<<"present", 0>>} ELSE NO_FENCE,
         clientTargetAcquireFence |->
             IF st.usesClientComposition THEN {<<"clientTargetAcquire", 0>>}
             ELSE NO_FENCE,
         layerFences |-> IF hasId THEN [h \in handles |-> {<<"release", h>>}]
                         ELSE <<>>]

\* The elements of a set of numbers in increasing order.
RECURSIVE Ascending(_)
Ascending(S) ==
    IF S = {} THEN <<>>
    ELSE LET least == CHOOSE x \in S : \A y \in S : x <= y
         IN  <<least>> \o Ascending(S \ {least})

\* The release fence without the client target acquire fence.
releaseFenceUnmerged(st, outputLayer, frame) ==
    IF outputLayer.hwcLayer # NoHwcLayer
       /\ outputLayer.hwcLayer \in DOMAIN frame.layerFences
    THEN frame.layerFences[outputLayer.hwcLayer]
    ELSE NO_FENCE

\* The fence an output layer is displayed with.
releaseFence(st, outputLayer, frame) ==
    LET fromHwc == IF outputLayer.hwcLayer # NoHwcLayer
                      /\ outputLayer.hwcLayer \in DOMAIN frame.layerFences
                   THEN frame.layerFences[outputLayer.hwcLayer]
                   ELSE NO_FENCE
    IN  IF st.usesClientComposition
        THEN merge(fromHwc, frame.clientTargetAcquireFence)
        ELSE fromHwc

\* The released layers left by a postFramebuffer that does not clear them.
ReleasedLayersKept(st, released) == released

\* The released layers postFramebuffer leaves.
ReleasedLayersAfterPost(st, released) == IF ~st.isEnabled THEN released ELSE {}

\* Output::postFramebuffer, the fences: the onLayerDisplayed calls, to the
\* output layers and then to the released layers that still promote.
onLayerDisplayed(st, list, hasId, released, gone) ==
    IF ~st.isEnabled THEN <<>>
    ELSE LET frame == presentAndGetFrameFences(st, list, hasId)
             live == Ascending(released \ gone)
         IN  [i \in DOMAIN list |->
                 <<"LayerFE.onLayerDisplayed", list[i].layer,
                   releaseFence(st, list[i], frame)>>]
             \o [i \in DOMAIN live |->
                 <<"LayerFE.onLayerDisplayed", live[i], frame.presentFence>>]

\* What *mId yields: the id of the display, or, of an empty optional, where
\* the behaviour is undefined, an indeterminate value or a trap.
Dereferenced(hasId) == IF hasId THEN {"id"} ELSE {"indeterminate", "trap"}

\* A call of the HWC with the id that *mId has yielded.
ComposerCall(name, id, argument) ==
    <<name, B2N(id = "indeterminate"), {<<argument, 0>>}>>

\* Display::setColorMode applied to a virtual display as to any other.
Display_setColorModeOnVirtual(st, isVirtual, id, p) ==
    LET entered == << <<"Display.setColorMode", 0, {<<p.mode, 0>>}>> >>
    IN  IF SameColorProfile(st, p) THEN [st |-> st, calls |-> entered, trapped |-> FALSE]
        ELSE IF id = "trap"
        THEN [st |-> setColorProfile(st, p), calls |-> entered, trapped |-> TRUE]
        ELSE [st |-> setColorProfile(st, p),
              calls |-> entered \o
                        <<ComposerCall("HWComposer.setActiveColorMode", id, p.mode)>>,
              trapped |-> FALSE]

\* Display::setColorMode: the state and the calls it leaves, given what *mId
\* yields.
Display_setColorMode(st, isVirtual, id, p) ==
    LET entered == << <<"Display.setColorMode", 0, {<<p.mode, 0>>}>> >>
    IN  IF SameColorProfile(st, p) THEN [st |-> st, calls |-> entered, trapped |-> FALSE]
        ELSE IF isVirtual THEN [st |-> st, calls |-> entered, trapped |-> FALSE]
        ELSE IF id = "trap"
        THEN [st |-> setColorProfile(st, p), calls |-> entered, trapped |-> TRUE]
        ELSE [st |-> setColorProfile(st, p),
              calls |-> entered \o
                        <<ComposerCall("HWComposer.setActiveColorMode", id, p.mode)>>,
              trapped |-> FALSE]

\* Display::setColorTransform, given what *mId yields.
Display_setColorTransform(st, id, matrix) ==
    LET entered == << <<"Display.setColorTransform", 0, {<<matrix, 0>>}>> >>
    IN  IF id = "trap"
        THEN [st |-> setColorTransform(st, matrix), calls |-> entered, trapped |-> TRUE]
        ELSE [st |-> setColorTransform(st, matrix),
              calls |-> entered \o
                        <<ComposerCall("HWComposer.setColorTransform", id, matrix)>>,
              trapped |-> FALSE]

\* Display::getSkipColorTransform: the calls it makes.
Display_getSkipColorTransform(hasId) ==
    << <<"Display.getSkipColorTransform", 0, NO_FENCE>> >>
    \o (IF ~hasId THEN <<>>
        ELSE <<ComposerCall("HWComposer.hasDisplayCapability", "id",
                            "SkipClientColorTransform")>>)

\* Display::setExpensiveRenderingExpected: the calls it makes.
Display_setExpensiveRenderingExpected(hasId, hasPowerAdvisor, enabled) ==
    << <<"Display.setExpensiveRenderingExpected", B2N(enabled), NO_FENCE>> >>
    \o (IF hasPowerAdvisor /\ hasId
        THEN << <<"PowerAdvisor.setExpensiveRenderingExpected", B2N(enabled), NO_FENCE>> >>
        ELSE <<>>)

\* Display::disconnect: whether the display has an id afterwards, and the calls.
disconnect(hasId) ==
    IF ~hasId THEN [mId |-> FALSE, calls |-> <<>>]
    ELSE [mId |-> FALSE,
          calls |-> << <<"HWComposer.disconnectDisplay", 0, NO_FENCE>> >>]

(***************************************************************************)
(* The refresh-rate scheduler (Scheduler.cpp, RefreshRateConfigs.h).       *)
(***************************************************************************)
\* RefreshRateConfigs::RefreshRateType, in the order of the enumeration,
\* which is the iteration order of the std::map keyed by it.
RefreshRateTypes == <<"DEFAULT", "PERFORMANCE">>

\* RefreshRateConfigs::RefreshRateConfigEvent
ConfigEvents == {"None", "Changed"}

\* RefreshRateConfigs::RefreshRate: fps, and the vsync period in
\* milliseconds.
RefreshRate(fps) == [fps |-> fps, vsyncPeriod |-> 1000 \div fps]

\* A RefreshRateConfigs object: the map is the sequence of its entries in
\* key order, entry i being the one of RefreshRateTypes[i].
RefreshRateConfigs(supported, fpsDefault, fpsPerformance, current) ==
    [refreshRateSwitchingSupported |-> supported,
     refreshRateMap |-> <<RefreshRate(fpsDefault), RefreshRate(fpsPerformance)>>,
     currentConfig |-> current]

\* RefreshRateConfigs::getCurrentRefreshRate
getCurrentRefreshRate(configs) ==
    <<RefreshRateTypes[configs.currentConfig],
      configs.refreshRateMap[configs.currentConfig]>>

\* The devices considered: <<configs, force-HDR-to-default>>.
SchedulerConfigs ==
    {<<RefreshRateConfigs(FALSE, 60, 90, 1), FALSE>>,
     <<RefreshRateConfigs(TRUE, 60, 90, 1), FALSE>>,
     <<RefreshRateConfigs(TRUE, 60, 90, 1), TRUE>>,
     <<RefreshRateConfigs(TRUE, 60, 120, 1), FALSE>>}

\* The content refresh rates the layer history reports (0: none detected).
ContentRates == {0, 30, 45, 80, 90}

\* Scheduler::mFeatures as constructed.
ConstructedFeatures ==
    [contentRefreshRate |-> 0,
     isHDRContent |-> FALSE,
     contentDetection |-> "Off",
     idleTimer |-> "Reset",
     touch |-> "Inactive",
     displayPowerTimer |-> "Expired",
     isDisplayPowerStateNormal |-> TRUE,
     refreshRateType |-> "DEFAULT"]

Abs(x) == IF x < 0 THEN -x ELSE x

\* std::round(fps / rate) for positive operands.
RoundRatio(fps, rate) == (2 * fps + rate) \div (2 * rate)

\* abs(round(ratio) - ratio) <= MARGIN with ratio = fps / rate and
\* MARGIN = 0.05, multiplied through by 20 * rate.
WithinMargin(fps, rate) == 20 * Abs(RoundRatio(fps, rate) * rate - fps) <= rate

\* std::min_element over the map with the comparison
\* abs(lhs.fps - rate) < abs(rhs.fps - rate): the first entry no other
\* entry is strictly closer than.
RECURSIVE MinElement(_, _, _, _)
MinElement(map, rate, i, best) ==
    IF i > Len(map) THEN best
    ELSE MinElement(map, rate, i + 1,
                    IF Abs(map[i].fps - rate) < Abs(map[best].fps - rate)
                    THEN i ELSE best)

\* The while loop of calculateRefreshRateType: the first entry from iter on
\* whose ratio is within the margin, or curr when there is none.
RECURSIVE ScanForRatio(_, _, _, _)
ScanForRatio(map, rate, iter, curr) ==
    IF iter > Len(map) THEN curr
    ELSE IF WithinMargin(map[iter].fps, rate) THEN iter
    ELSE ScanForRatio(map, rate, iter + 1, curr)

\* The content-based choice without the scan for an integer ratio.
ContentRefreshRateTypeClosest(map, rate) == RefreshRateTypes[MinElement(map, rate, 2, 1)]

\* The tail of Scheduler::calculateRefreshRateType: the type for the content.
ContentRefreshRateType(map, rate) ==
    LET iter == MinElement(map, rate, 2, 1)
    IN  RefreshRateTypes[IF WithinMargin(map[iter].fps, rate) THEN iter
                         ELSE ScanForRatio(map, rate, iter, iter)]

\* calculateRefreshRateType with the idle timer consulted before touch.
calculateRefreshRateTypeIdleFirst(configs, forceHDR, f) ==
    IF ~configs.refreshRateSwitchingSupported THEN "DEFAULT"
    ELSE IF forceHDR /\ f.isHDRContent THEN "DEFAULT"
    ELSE IF ~f.isDisplayPowerStateNormal \/ f.displayPowerTimer = "Reset"
         THEN "PERFORMANCE"
    ELSE IF f.idleTimer = "Expired" THEN "DEFAULT"
    ELSE IF f.touch = "Active" THEN "PERFORMANCE"
    ELSE IF f.contentDetection = "Off" THEN "PERFORMANCE"
    ELSE ContentRefreshRateType(configs.refreshRateMap, f.contentRefreshRate)

\* Scheduler::calculateRefreshRateType
calculateRefreshRateType(configs, forceHDR, f) ==
    IF ~configs.refreshRateSwitchingSupported THEN "DEFAULT"
    ELSE IF forceHDR /\ f.isHDRContent THEN "DEFAULT"
    ELSE IF ~f.isDisplayPowerStateNormal \/ f.displayPowerTimer = "Reset"
         THEN "PERFORMANCE"
    ELSE IF f.touch = "Active" THEN "PERFORMANCE"
    ELSE IF f.idleTimer = "Expired" THEN "DEFAULT"
    ELSE IF f.contentDetection = "Off" THEN "PERFORMANCE"
    ELSE ContentRefreshRateType(configs.refreshRateMap, f.contentRefreshRate)

\* No pending call of changeRefreshRate.
NoChange == <<>>

\* What a critical section on mFeatureStateLock leaves: the features, and
\* the arguments of the changeRefreshRate call that follows it, if any.
SectionResult(f, change) == [features |-> f, change |-> change]

\* handleTimerStateChanged without the comparison with the stored type.
handleTimerStateChangedAlways(configs, forceHDR, f, field, newState, eventOnContentDetection) ==
    IF f[field] = newState THEN SectionResult(f, NoChange)
    ELSE LET f1 == [f EXCEPT ![field] = newState]
             newRefreshRateType == calculateRefreshRateType(configs, forceHDR, f1)
         IN  SectionResult(
                 [f1 EXCEPT !.refreshRateType = newRefreshRateType],
                 <<newRefreshRateType,
                   IF eventOnContentDetection /\ f1.contentDetection = "On"
                   THEN "Changed" ELSE "None">>)

\* Scheduler::handleTimerStateChanged
handleTimerStateChanged(configs, forceHDR, f, field, newState, eventOnContentDetection) ==
    IF f[field] = newState THEN SectionResult(f, NoChange)
    ELSE LET f1 == [f EXCEPT ![field] = newState]
             newRefreshRateType == calculateRefreshRateType(configs, forceHDR, f1)
         IN  IF f1.refreshRateType = newRefreshRateType
             THEN SectionResult(f1, NoChange)
             ELSE SectionResult(
                      [f1 EXCEPT !.refreshRateType = newRefreshRateType],
                      <<newRefreshRateType,
                        IF eventOnContentDetection /\ f1.contentDetection = "On"
                        THEN "Changed" ELSE "None">>)

\* idleTimerCallback raising the event on content detection, as the touch
\* and display-power timers do.
idleTimerCallbackOnContent(configs, forceHDR, f, state) ==
    handleTimerStateChanged(configs, forceHDR, f, "idleTimer", state, TRUE)

\* Scheduler::idleTimerCallback
idleTimerCallback(configs, forceHDR, f, state) ==
    handleTimerStateChanged(configs, forceHDR, f, "idleTimer", state, FALSE)

\* Scheduler::touchTimerCallback
touchTimerCallback(configs, forceHDR, f, state) ==
    handleTimerStateChanged(configs, forceHDR, f, "touch",
                            IF state = "Reset" THEN "Active" ELSE "Inactive", TRUE)

\* Scheduler::displayPowerTimerCallback
displayPowerTimerCallback(configs, forceHDR, f, state) ==
    handleTimerStateChanged(configs, forceHDR, f, "displayPowerTimer", state, TRUE)

\* Scheduler::updateFpsBasedOnContent, given what the layer history reports.
updateFpsBasedOnContent(configs, forceHDR, f, refreshRateRound, isHDR) ==
    IF f.contentRefreshRate = refreshRateRound /\ f.isHDRContent = isHDR
    THEN SectionResult(f, NoChange)
    ELSE LET f1 == [f EXCEPT !.contentRefreshRate = refreshRateRound,
                             !.isHDRContent = isHDR,
                             !.contentDetection =
                                 IF refreshRateRound > 0 THEN "On" ELSE "Off"]
             newRefreshRateType == calculateRefreshRateType(configs, forceHDR, f1)
         IN  IF f1.refreshRateType = newRefreshRateType
             THEN SectionResult(f1, NoChange)
             ELSE SectionResult(
                      [f1 EXCEPT !.refreshRateType = newRefreshRateType],
                      <<newRefreshRateType, "Changed">>)

\* Scheduler::setDisplayPowerState, its critical section.
setDisplayPowerState(f, normal) ==
    SectionResult([f EXCEPT !.isDisplayPowerStateNormal = normal], NoChange)

(***************************************************************************)
(* Hardware vsync (Scheduler.cpp).  The operators work on the members      *)
(* guarded by mHWVsyncLock and append to the log of the functions entered  *)
(* and the collaborator calls made, each <<name, argument, argument>>.     *)
(***************************************************************************)
\* static constexpr nsecs_t kIgnoreDelay = ms2ns(750), in milliseconds.
kIgnoreDelay == 750

\* The instants systemTime() returns, in milliseconds.
MaxTicks == 8
Times == {250 * k : k \in 0..MaxTicks}

\* The members guarded by mHWVsyncLock, and the log.
HWVsync(enabled, available, log) ==
    [mPrimaryHWVsyncEnabled |-> enabled, mHWVsyncAvailable |-> available,
     log |-> log]

Log(v, entries) == [v EXCEPT !.log = v.log \o entries]

\* enableHardwareVsync without the test of mPrimaryHWVsyncEnabled.
enableHardwareVsyncAgain(v) ==
    LET v1 == Log(v, << <<"enableHardwareVsync", 0, 0>> >>)
    IN  IF v1.mHWVsyncAvailable
        THEN [Log(v1, << <<"DispSync.beginResync", 0, 0>>,
                         <<"EventControlThread.setVsyncEnabled", B2N(TRUE), 0>> >>)
                 EXCEPT !.mPrimaryHWVsyncEnabled = TRUE]
        ELSE v1

\* Scheduler::enableHardwareVsync
enableHardwareVsync(v) ==
    LET v1 == Log(v, << <<"enableHardwareVsync", 0, 0>> >>)
    IN  IF ~v1.mPrimaryHWVsyncEnabled /\ v1.mHWVsyncAvailable
        THEN [Log(v1, << <<"DispSync.beginResync", 0, 0>>,
                         <<"EventControlThread.setVsyncEnabled", B2N(TRUE), 0>> >>)
                 EXCEPT !.mPrimaryHWVsyncEnabled = TRUE]
        ELSE v1

\* Scheduler::disableHardwareVsync
disableHardwareVsync(v, makeUnavailable) ==
    LET v0 == Log(v, << <<"disableHardwareVsync", B2N(makeUnavailable), 0>> >>)
        v1 == IF v0.mPrimaryHWVsyncEnabled
              THEN [Log(v0, << <<"EventControlThread.setVsyncEnabled", B2N(FALSE), 0>>,
                               <<"DispSync.endResync", 0, 0>> >>)
                      EXCEPT !.mPrimaryHWVsyncEnabled = FALSE]
              ELSE v0
    IN  IF makeUnavailable THEN [v1 EXCEPT !.mHWVsyncAvailable = FALSE] ELSE v1

\* Scheduler::setVsyncPeriod
setVsyncPeriod(v, period) ==
    LET v1 == Log(v, << <<"setVsyncPeriod", period, 0>>,
                        <<"DispSync.setPeriod", period, 0>> >>)
    IN  IF ~v1.mPrimaryHWVsyncEnabled
        THEN [Log(v1, << <<"DispSync.beginResync", 0, 0>>,
                         <<"EventControlThread.setVsyncEnabled", B2N(TRUE), 0>> >>)
                 EXCEPT !.mPrimaryHWVsyncEnabled = TRUE]
        ELSE v1

\* Scheduler::resyncToHardwareVsync
resyncToHardwareVsync(v, makeAvailable, period) ==
    LET v1 == Log(v, << <<"resyncToHardwareVsync", B2N(makeAvailable), period>> >>)
        v2 == IF makeAvailable THEN [v1 EXCEPT !.mHWVsyncAvailable = TRUE] ELSE v1
    IN  IF ~makeAvailable /\ ~v1.mHWVsyncAvailable THEN v1
        ELSE IF period <= 0 THEN v2
        ELSE setVsyncPeriod(v2, period)

\* Scheduler::resyncToHardwareVsync, its critical section: the members, and
\* whether the function goes on to setVsyncPeriod (it does not when vsync is
\* unavailable or the period is not positive).
resyncToHardwareVsyncSection(v, makeAvailable, period) ==
    LET v1 == Log(v, << <<"resyncToHardwareVsync", B2N(makeAvailable), period>> >>)
        v2 == IF makeAvailable THEN [v1 EXCEPT !.mHWVsyncAvailable = TRUE] ELSE v1
    IN  [v |-> v2,
         proceeds |-> (makeAvailable \/ v1.mHWVsyncAvailable) /\ period > 0]

\* Scheduler::addResyncSample, its critical section: the members, what
\* DispSync::addResyncSample returned if it was asked, and *periodFlushed.
addResyncSampleSection(v, needsHwVsync, flushed) ==
    LET v0 == Log(v, << <<"addResyncSample", 0, 0>> >>)
        asked == v0.mPrimaryHWVsyncEnabled
    IN  [v |-> IF asked
               THEN Log(v0, << <<"DispSync.addResyncSample", B2N(needsHwVsync),
                                 B2N(flushed)>> >>)
               ELSE v0,
         needsHwVsync |-> asked /\ needsHwVsync,
         periodFlushed |-> asked /\ flushed]

\* kernelIdleTimerCallback that looks at the timer state only.
kernelIdleTimerCallbackAnyRate(v, configs, state) ==
    LET refreshRate == getCurrentRefreshRate(configs)
        v1 == Log(v, << <<"kernelIdleTimerCallback", B2N(state = "Reset"), 0>> >>)
    IN  IF state = "Reset"
        THEN resyncToHardwareVsync(v1, TRUE, refreshRate[2].vsyncPeriod)
        ELSE disableHardwareVsync(v1, FALSE)

\* Scheduler::kernelIdleTimerCallback
kernelIdleTimerCallback(v, configs, state) ==
    LET refreshRate == getCurrentRefreshRate(configs)
        v1 == Log(v, << <<"kernelIdleTimerCallback", B2N(state = "Reset"), 0>> >>)
    IN  IF state = "Reset" /\ refreshRate[1] = "PERFORMANCE"
        THEN resyncToHardwareVsync(v1, TRUE, refreshRate[2].vsyncPeriod)
        ELSE IF state = "Expired" /\ refreshRate[1] # "PERFORMANCE"
        THEN disableHardwareVsync(v1, FALSE)
        ELSE v1

\* Scheduler::resync with "at least the delay" for "more than the delay".
resyncAtDelay(v, last, time, period) ==
    LET v1 == Log(v, << <<"resync", 0, 0>> >>)
    IN  IF time - last >= kIgnoreDelay
        THEN resyncToHardwareVsync(v1, FALSE, period)
        ELSE v1

\* Scheduler::resync, given mLastResyncTime, systemTime() and the vsync
\* period of the current refresh rate; mLastResyncTime becomes the time.
resync(v, last, time, period) ==
    LET v1 == Log(v, << <<"resync", 0, 0>> >>)
    IN  IF time - last > kIgnoreDelay
        THEN resyncToHardwareVsync(v1, FALSE, period)
        ELSE v1

\* Scheduler::addResyncSample asking DispSync whatever the vsync state.
addResyncSampleUnguarded(v, needsHwVsync, flushed) ==
    LET v1 == Log(v, << <<"addResyncSample", 0, 0>>,
                        <<"DispSync.addResyncSample", B2N(needsHwVsync), B2N(flushed)>> >>)
    IN  [v |-> IF needsHwVsync THEN enableHardwareVsync(v1)
               ELSE disableHardwareVsync(v1, FALSE),
         periodFlushed |-> flushed]

\* Scheduler::addResyncSample, given what DispSync::addResyncSample would
\* return and store in *periodFlushed.
addResyncSample(v, needsHwVsync, flushed) ==
    LET v0 == Log(v, << <<"addResyncSample", 0, 0>> >>)
        asked == v0.mPrimaryHWVsyncEnabled
        v1 == IF asked
              THEN Log(v0, << <<"DispSync.addResyncSample", B2N(needsHwVsync),
                               B2N(flushed)>> >>)
              ELSE v0
    IN  [v |-> IF asked /\ needsHwVsync THEN enableHardwareVsync(v1)
               ELSE disableHardwareVsync(v1, FALSE),
         periodFlushed |-> asked /\ flushed]

\* Scheduler::addPresentFence, given what DispSync::addPresentFence returns.
addPresentFence(v, needsHwVsync) ==
    LET v1 == Log(v, << <<"addPresentFence", 0, 0>>,
                        <<"DispSync.addPresentFence", B2N(needsHwVsync), 0>> >>)
    IN  IF needsHwVsync THEN enableHardwareVsync(v1)
        ELSE disableHardwareVsync(v1, FALSE)

(***************************************************************************)
(* The connection registry of the scheduler (Scheduler.cpp).               *)
(***************************************************************************)
\* The connections created in a run, and the event threads given to them.
MaxConnections == 3
EventThreads == 1..MaxConnections

\* Scheduler::createConnection that does not advance the handle id.
createConnectionSameId(connections, nextId, eventThread) ==
    [mConnections |-> IF nextId \in DOMAIN connections THEN connections
                      ELSE (nextId :> eventThread) @@ connections,
     mNextConnectionHandleId |-> nextId,
     handle |-> nextId]

\* Scheduler::createConnection(std::unique_ptr<EventThread>): the handle
\* returned, and the registry, where emplace keeps an entry already there.
createConnection(connections, nextId, eventThread) ==
    [mConnections |-> IF nextId \in DOMAIN connections THEN connections
                      ELSE (nextId :> eventThread) @@ connections,
     mNextConnectionHandleId |-> nextId + 1,
     handle |-> nextId]

\* RETURN_IF_INVALID_HANDLE, then mConnections[handle].thread->operation():
\* the calls made by onHotplugReceived, onScreenAcquired, onScreenReleased,
\* onConfigChanged and setPhaseOffset.
ForwardToThread(connections, operation, handle) ==
    IF handle \notin DOMAIN connections
    THEN << <<operation, handle, 0>> >>
    ELSE << <<operation, handle, 0>>,
            <<"EventThread", handle, connections[handle]>> >>

\* The threads calling into the scheduler.
NumThreads == 2
Threads == 1..NumThreads
NoThread == 0

\* A thread outside the scheduler.  A thread inside it has the handler it
\* runs while in the critical section, and the arguments of the
\* changeRefreshRate call it makes after it.
IdleThread == [pc |-> "idle", handler |-> "", change |-> NoChange]

\* The lock_guard scope of the critical section reaching over the call of
\* changeRefreshRate.
FeatureLockKept(t) == t

\* The holder of mFeatureStateLock once the scope of the lock_guard of a
\* handler's critical section ends.
FeatureLockAfterScope(t) == NoThread

\* A thread outside the vsync operations.  A thread between two critical
\* sections on mHWVsyncLock has the function it goes on to and its argument.
IdleVsyncThread == [pc |-> "idle", period |-> 0]

\* The feature state of a scheduler constructed over a device.
FeaturesInit(device) ==
    /\ mFeatures = ConstructedFeatures
    /\ mRefreshRateConfigs = device[1]
    /\ mForceHDRContentToDefaultRefreshRate = device[2]
    /\ mChangeRefreshRateCallback = FALSE
    /\ mFeatureStateLock = NoThread
    /\ mCallbackLock = NoThread
    /\ threads = [t \in Threads |-> IdleThread]
    /\ callbackLog = NoChange

\* The hardware-vsync state of a constructed scheduler.
VsyncInit ==
    /\ mPrimaryHWVsyncEnabled = FALSE
    /\ mHWVsyncAvailable = FALSE
    /\ mLastResyncTime = 0
    /\ now = 0
    /\ periodFlushed = FALSE
    /\ vsyncCalls = <<>>
    /\ vsyncThreads = [t \in Threads |-> IdleVsyncThread]

\* The connection registry of a constructed scheduler.
ConnectionsInit ==
    /\ mConnections = <<>>
    /\ mNextConnectionHandleId = 0
    /\ connectionCalls = <<>>

\* The scheduler standing beside an output under study.
SchedulerInit ==
    /\ FeaturesInit(<<RefreshRateConfigs(TRUE, 60, 90, 1), FALSE>>)
    /\ VsyncInit
    /\ mSupportKernelTimer = FALSE
    /\ ConnectionsInit

\* An output that is no display: no HWC id, no released layers.
DisplayInit ==
    /\ mId = FALSE
    /\ mIsVirtual = FALSE
    /\ mReleasedLayers = {}
    /\ expired = {}
    /\ bestDataSpace = getBestDataspace(<<>>, 0)
    /\ displayCalls = <<>>

\* The output standing beside a scheduler under study.
OutputInit ==
    /\ mState = ConstructedState
    /\ mOutputLayersOrderedByZ = <<>>
    /\ feState = [l \in Layers |-> DefaultFEState]
    /\ layers = <<>>
    /\ geomSnapshots = {}
    /\ pc = "idle"
    /\ calls = {}
    /\ DisplayInit

Init ==
    /\ mState = setRenderSurface(ConstructedState, 2)
    /\ mOutputLayersOrderedByZ = <<>>
    /\ feState = [l \in Layers |-> DefaultFEState]
    /\ layers = <<>>
    /\ geomSnapshots = {}
    /\ pc = "idle"
    /\ calls = {}
    /\ DisplayInit
    /\ SchedulerInit

(***************************************************************************)
(* Actions: the setters, called between frames.  Each action is given the  *)
(* set its inputs are drawn from.                                          *)
(***************************************************************************)
Setter(st, cs) ==
    /\ pc = "idle"
    /\ mState' = st
    /\ calls' = cs
    /\ UNCHANGED <<mOutputLayersOrderedByZ, feState, layers, geomSnapshots, pc>>
    /\ UNCHANGED <<schedulerVars, displayVars>>

SetCompositionEnabled ==
    \E enabled \in BOOLEAN : Setter(setCompositionEnabled(mState, enabled), {})

SetProjection(Projs) == \E p \in Projs : Setter(setProjection(mState, p), {})

SetBounds ==
    \E size \in DisplaySizes :
        Setter(setBounds(mState, size), {<<"RenderSurface.setDisplaySize", size>>})

SetLayerStackFilter(Filters) ==
    \E f \in Filters : Setter(setLayerStackFilter(mState, f[1], f[2]), {})

(***************************************************************************)
(* Actions: a frame.  prepare() runs rebuildLayerStacks, then the layers'  *)
(* state is latched (updateLayerStateFromFE), then present() runs its      *)
(* phases in order.                                                        *)
(***************************************************************************)
\* Output::prepare / Output::rebuildLayerStacks
RebuildLayerStacks(FEDom, UpdatingFlags, Inputs) ==
    /\ pc = "idle"
    /\ pc' = "updateLayerStateFromFE"
    /\ UNCHANGED <<schedulerVars, displayVars>>
    /\ \E updatingOutputGeometryThisFrame \in UpdatingFlags :
        IF ~RunsPass(mState, updatingOutputGeometryThisFrame)
        THEN /\ calls' = {}
             /\ geomSnapshots' = {}
             /\ UNCHANGED <<mState, mOutputLayersOrderedByZ, feState, layers>>
        ELSE \E ls \in LayerLists, inp \in Inputs :
             \E stored \in [(Range(ls) \cap inp.promoted) \ inp.latched -> FEDom] :
             \E c \in {collectVisibleLayers(ls, mState,
                         InitialCoverage(feState, inp.latched, mOutputLayersOrderedByZ),
                         inp.promoted, Latched(feState, DOMAIN stored, stored))} :
                   /\ mState' = StoreCoverageInState(mState, c)
                   /\ mOutputLayersOrderedByZ' = c.out
                   /\ feState' = c.fe
                   /\ layers' = ls
                   /\ geomSnapshots' = c.latchedLayers
                   /\ calls' = LatchCalls(c.latchedLayers \ inp.latched)
                               \cup {<<"Layer.getLayerFE.null", l>> :
                                        l \in Range(ls) \ inp.promoted}
                               \cup {<<"createOutputLayer", c.created>>,
                                     <<"destroyOutputLayer", c.destroyed>>}

OutputLayerLayers(list) == {list[i].layer : i \in NonNull(list)}

\* Output::updateLayerStateFromFE.  A latch of the geometry stores a new
\* state for a layer not latched earlier in this frame; a latch of the
\* content alone leaves the fields modelled here as they are.
UpdateLayerStateFromFE(FEDom, GeometryFlags) ==
    /\ pc = "updateLayerStateFromFE"
    /\ pc' = "updateColorProfile"
    /\ UNCHANGED <<schedulerVars, displayVars>>
    /\ \E updatingGeometryThisFrame \in GeometryFlags :
        LET toLatch == IF updatingGeometryThisFrame
                       THEN OutputLayerLayers(mOutputLayersOrderedByZ) \ geomSnapshots
                       ELSE {}
        IN \E stored \in [toLatch -> FEDom] :
              feState' = Latched(feState, toLatch, stored)
    /\ calls' = LatchCalls(OutputLayerLayers(mOutputLayersOrderedByZ))
    /\ geomSnapshots' = {}
    /\ UNCHANGED <<mState, mOutputLayersOrderedByZ, layers>>

\* A phase of present() that changes the output state alone.
Phase(at, next, effect) ==
    /\ pc = at
    /\ pc' = next
    /\ UNCHANGED <<schedulerVars, displayVars>>
    /\ mState' = effect.st
    /\ calls' = effect.calls
    /\ UNCHANGED <<mOutputLayersOrderedByZ, feState, layers, geomSnapshots>>

\* Output::updateColorProfile: the profile picked is an input.
UpdateColorProfile(Profiles) ==
    \E p \in Profiles :
        Phase("updateColorProfile", "updateAndWriteCompositionState",
              Effect(setColorProfile(mState, p),
                     IF SameColorProfile(mState, p) THEN {}
                     ELSE {<<"RenderSurface.setBufferDataspace", 0>>}))

\* Output::updateAndWriteCompositionState
UpdateAndWriteCompositionState ==
    Phase("updateAndWriteCompositionState", "setColorTransform",
          Effect(mState,
                 {<<"OutputLayer.writeStateToHWC", l>> :
                     l \in OutputLayerLayers(mOutputLayersOrderedByZ)}))

\* Output::setColorTransform(refreshArgs)
SetColorTransform(Matrices) ==
    \E m \in Matrices :
        Phase("setColorTransform", "beginFrame", Effect(setColorTransform(mState, m), {}))

BeginFrame ==
    Phase("beginFrame", "prepareFrame", beginFrame(mState, mOutputLayersOrderedByZ))

PrepareFrame == Phase("prepareFrame", "devOptRepaintFlash", prepareFrame(mState))

\* Output::devOptRepaintFlash; the flash delay is set or not.
DevOptRepaintFlash(FlashFlags) ==
    \E flash \in FlashFlags, repaintEverything \in BOOLEAN, dequeued \in BOOLEAN :
        Phase("devOptRepaintFlash", "finishFrame",
              devOptRepaintFlash(mState, mOutputLayersOrderedByZ, feState, flash,
                                 repaintEverything, dequeued))

FinishFrame ==
    \E dequeued \in BOOLEAN :
        Phase("finishFrame", "postFramebuffer",
              finishFrame(mState, mOutputLayersOrderedByZ, feState, dequeued))

PostFramebuffer ==
    Phase("postFramebuffer", "idle", postFramebuffer(mState, mOutputLayersOrderedByZ))

(***************************************************************************)
(* Spec: every operation of the output, over the small set of front-end    *)
(* states.                                                                 *)
(***************************************************************************)
Next ==
    \/ SetCompositionEnabled
    \/ SetProjection(Projections)
    \/ SetBounds
    \/ SetLayerStackFilter({<<0, TRUE>>})
    \/ RebuildLayerStacks(BasicFEStates, BOOLEAN, {AllPromoted})
    \/ UpdateLayerStateFromFE({HiddenFEState}, BOOLEAN)
    \/ UpdateColorProfile(ColorProfiles)
    \/ UpdateAndWriteCompositionState
    \/ SetColorTransform(ColorMatrices \cup {NoMatrix})
    \/ BeginFrame
    \/ PrepareFrame
    \/ DevOptRepaintFlash(BOOLEAN)
    \/ FinishFrame
    \/ PostFramebuffer

Spec == Init /\ [][Next]_vars

(***************************************************************************)
(* SpecPass: the frames of an enabled, configured output whose visibility  *)
(* pass runs in every frame, over all the front-end states.                *)
(***************************************************************************)
InitPass ==
    /\ mState = setCompositionEnabled(
                    setLayerStackFilter(
                        setProjection(setRenderSurface(ConstructedState, 2),
                                      Projection(0, <<0, MaxSize>>)),
                        0, FALSE),
                    TRUE)
    /\ mOutputLayersOrderedByZ = <<>>
    /\ feState = [l \in Layers |-> DefaultFEState]
    /\ layers = <<>>
    /\ geomSnapshots = {}
    /\ pc = "idle"
    /\ calls = {}
    /\ DisplayInit
    /\ SchedulerInit

NextPass ==
    \/ SetProjection(Projections)
    \/ RebuildLayerStacks(FEStates, {TRUE}, PassInputs)
    \/ UpdateLayerStateFromFE(FEStates, {FALSE})
    \/ UpdateColorProfile({ColorProfile("NATIVE", "UNKNOWN", "COLORIMETRIC", "UNKNOWN")})
    \/ UpdateAndWriteCompositionState
    \/ SetColorTransform({NoMatrix})
    \/ BeginFrame
    \/ PrepareFrame
    \/ DevOptRepaintFlash({FALSE})
    \/ FinishFrame
    \/ PostFramebuffer

SpecPass == InitPass /\ [][NextPass]_vars

(***************************************************************************)
(* SpecSched: the threads that deliver timer, content and power events to  *)
(* the scheduler.  A critical section is one step taken when its mutex is  *)
(* acquired; releasing the mutex is the next step of the thread.           *)
(***************************************************************************)
TimerStates == {"Reset", "Expired"}

\* A handler locks mFeatureStateLock and runs its critical section.
EnterFeatureSection(t, handler, result) ==
    /\ threads[t].pc = "idle"
    /\ mFeatureStateLock = NoThread
    /\ mFeatureStateLock' = t
    /\ mFeatures' = result.features
    /\ threads' = [threads EXCEPT ![t] = [pc |-> "featureSection",
                                          handler |-> handler,
                                          change |-> result.change]]
    /\ UNCHANGED <<mRefreshRateConfigs, mForceHDRContentToDefaultRefreshRate,
                   mChangeRefreshRateCallback, mCallbackLock, callbackLog>>
    /\ UNCHANGED <<outputVars, vsyncVars, connectionVars>>

IdleTimerCallback(t) ==
    \E state \in TimerStates :
        EnterFeatureSection(t, "idleTimerCallback", idleTimerCallback(mRefreshRateConfigs,
            mForceHDRContentToDefaultRefreshRate, mFeatures, state))

TouchTimerCallback(t) ==
    \E state \in TimerStates :
        EnterFeatureSection(t, "touchTimerCallback", touchTimerCallback(mRefreshRateConfigs,
            mForceHDRContentToDefaultRefreshRate, mFeatures, state))

DisplayPowerTimerCallback(t) ==
    \E state \in TimerStates :
        EnterFeatureSection(t, "displayPowerTimerCallback", displayPowerTimerCallback(mRefreshRateConfigs,
            mForceHDRContentToDefaultRefreshRate, mFeatures, state))

UpdateFpsBasedOnContent(t) ==
    \E refreshRateRound \in ContentRates, isHDR \in BOOLEAN :
        EnterFeatureSection(t, "updateFpsBasedOnContent", updateFpsBasedOnContent(mRefreshRateConfigs,
            mForceHDRContentToDefaultRefreshRate, mFeatures, refreshRateRound, isHDR))

SetDisplayPowerState(t) ==
    \E normal \in BOOLEAN :
        EnterFeatureSection(t, "setDisplayPowerState",
                            setDisplayPowerState(mFeatures, normal))

\* The scope of the lock_guard ends: the handler returns, or goes on to
\* changeRefreshRate.
LeaveFeatureSection(t) ==
    /\ threads[t].pc = "featureSection"
    /\ mFeatureStateLock' = FeatureLockAfterScope(t)
    /\ threads' = [threads EXCEPT ![t] =
                       IF threads[t].change = NoChange THEN IdleThread
                       ELSE [pc |-> "changeRefreshRate", handler |-> "",
                             change |-> threads[t].change]]
    /\ UNCHANGED <<mFeatures, mRefreshRateConfigs, mForceHDRContentToDefaultRefreshRate,
                   mChangeRefreshRateCallback, mCallbackLock, callbackLog>>
    /\ UNCHANGED <<outputVars, vsyncVars, connectionVars>>

\* Scheduler::changeRefreshRate: locks mCallbackLock and invokes the
\* callback if there is one.
ChangeRefreshRate(t) ==
    /\ threads[t].pc = "changeRefreshRate"
    /\ mCallbackLock = NoThread
    /\ mCallbackLock' = t
    /\ IF mChangeRefreshRateCallback
       THEN /\ callbackLog' = threads[t].change
            /\ threads' = [threads EXCEPT ![t].pc = "callback"]
       ELSE /\ callbackLog' = callbackLog
            /\ threads' = [threads EXCEPT ![t].pc = "callbackReturned"]
    /\ UNCHANGED <<mFeatures, mRefreshRateConfigs, mForceHDRContentToDefaultRefreshRate,
                   mChangeRefreshRateCallback, mFeatureStateLock>>
    /\ UNCHANGED <<outputVars, vsyncVars, connectionVars>>

\* The callback runs: it returns, with or without a call of
\* Scheduler::getPreferredRefreshRateType, which locks mFeatureStateLock.
Callback(t) ==
    /\ threads[t].pc = "callback"
    /\ \/ TRUE
       \/ mFeatureStateLock = NoThread
    /\ threads' = [threads EXCEPT ![t].pc = "callbackReturned"]
    /\ UNCHANGED <<mFeatures, mRefreshRateConfigs, mForceHDRContentToDefaultRefreshRate,
                   mChangeRefreshRateCallback, mFeatureStateLock, mCallbackLock,
                   callbackLog>>
    /\ UNCHANGED <<outputVars, vsyncVars, connectionVars>>

\* changeRefreshRate returns and unlocks mCallbackLock.
ReturnFromChangeRefreshRate(t) ==
    /\ threads[t].pc = "callbackReturned"
    /\ mCallbackLock' = NoThread
    /\ threads' = [threads EXCEPT ![t] = IdleThread]
    /\ UNCHANGED <<mFeatures, mRefreshRateConfigs, mForceHDRContentToDefaultRefreshRate,
                   mChangeRefreshRateCallback, mFeatureStateLock, callbackLog>>
    /\ UNCHANGED <<outputVars, vsyncVars, connectionVars>>

\* Scheduler::setChangeRefreshRateCallback
SetChangeRefreshRateCallback(t) ==
    /\ threads[t].pc = "idle"
    /\ mCallbackLock = NoThread
    /\ mChangeRefreshRateCallback' = TRUE
    /\ UNCHANGED <<mFeatures, mRefreshRateConfigs, mForceHDRContentToDefaultRefreshRate,
                   mFeatureStateLock, mCallbackLock, threads, callbackLog>>
    /\ UNCHANGED <<outputVars, vsyncVars, connectionVars>>

InitSched ==
    /\ OutputInit
    /\ VsyncInit
    /\ mSupportKernelTimer = FALSE
    /\ ConnectionsInit
    /\ \E device \in SchedulerConfigs : FeaturesInit(device)

NextSched ==
    \E t \in Threads :
        \/ IdleTimerCallback(t)
        \/ TouchTimerCallback(t)
        \/ DisplayPowerTimerCallback(t)
        \/ UpdateFpsBasedOnContent(t)
        \/ SetDisplayPowerState(t)
        \/ LeaveFeatureSection(t)
        \/ ChangeRefreshRate(t)
        \/ Callback(t)
        \/ ReturnFromChangeRefreshRate(t)
        \/ SetChangeRefreshRateCallback(t)

SpecSched == InitSched /\ [][NextSched]_vars

(***************************************************************************)
(* SpecVsync: the hardware-vsync operations of the scheduler, each called  *)
(* to completion, while the clock advances.                                *)
(***************************************************************************)
CurrentHWVsync == HWVsync(mPrimaryHWVsyncEnabled, mHWVsyncAvailable, <<>>)

\* The vsync period of the current refresh rate.
CurrentVsyncPeriod == getCurrentRefreshRate(mRefreshRateConfigs)[2].vsyncPeriod

\* An operation leaves the members and the log of v.
VsyncStep(v) ==
    /\ mPrimaryHWVsyncEnabled' = v.mPrimaryHWVsyncEnabled
    /\ mHWVsyncAvailable' = v.mHWVsyncAvailable
    /\ vsyncCalls' = v.log
    /\ UNCHANGED <<outputVars, featureVars, connectionVars, now, mSupportKernelTimer,
                   vsyncThreads>>

\* Time passes.
Tick ==
    /\ now + 250 \in Times
    /\ now' = now + 250
    /\ vsyncCalls' = <<>>
    /\ UNCHANGED <<mPrimaryHWVsyncEnabled, mHWVsyncAvailable, mLastResyncTime,
                   periodFlushed, mSupportKernelTimer, vsyncThreads>>
    /\ UNCHANGED <<outputVars, featureVars, connectionVars>>

Resync ==
    /\ VsyncStep(resync(CurrentHWVsync, mLastResyncTime, now, CurrentVsyncPeriod))
    /\ mLastResyncTime' = now
    /\ UNCHANGED periodFlushed

EnableHardwareVsync ==
    /\ VsyncStep(enableHardwareVsync(CurrentHWVsync))
    /\ UNCHANGED <<mLastResyncTime, periodFlushed>>

DisableHardwareVsync ==
    \E makeUnavailable \in BOOLEAN :
        /\ VsyncStep(disableHardwareVsync(CurrentHWVsync, makeUnavailable))
        /\ UNCHANGED <<mLastResyncTime, periodFlushed>>

ResyncToHardwareVsync ==
    \E makeAvailable \in BOOLEAN :
        /\ VsyncStep(resyncToHardwareVsync(CurrentHWVsync, makeAvailable,
                                           CurrentVsyncPeriod))
        /\ UNCHANGED <<mLastResyncTime, periodFlushed>>

AddResyncSample ==
    \E needsHwVsync, flushed \in BOOLEAN :
        LET r == addResyncSample(CurrentHWVsync, needsHwVsync, flushed)
        IN  /\ VsyncStep(r.v)
            /\ periodFlushed' = r.periodFlushed
            /\ UNCHANGED mLastResyncTime

AddPresentFence ==
    \E needsHwVsync \in BOOLEAN :
        /\ VsyncStep(addPresentFence(CurrentHWVsync, needsHwVsync))
        /\ UNCHANGED <<mLastResyncTime, periodFlushed>>

\* RefreshRateConfigs::setCurrentConfig
SetCurrentConfig ==
    /\ \E config \in DOMAIN mRefreshRateConfigs.refreshRateMap :
           mRefreshRateConfigs' = [mRefreshRateConfigs EXCEPT !.currentConfig = config]
    /\ vsyncCalls' = <<>>
    /\ UNCHANGED <<mFeatures, mForceHDRContentToDefaultRefreshRate,
                   mChangeRefreshRateCallback, mFeatureStateLock, mCallbackLock,
                   threads, callbackLog>>
    /\ UNCHANGED <<mPrimaryHWVsyncEnabled, mHWVsyncAvailable, mLastResyncTime, now,
                   periodFlushed, mSupportKernelTimer, vsyncThreads>>
    /\ UNCHANGED <<outputVars, connectionVars>>

\* Scheduler::setChangeRefreshRateCallback, called to completion.
RegisterChangeRefreshRateCallback ==
    /\ mChangeRefreshRateCallback' = TRUE
    /\ vsyncCalls' = <<>>
    /\ UNCHANGED <<mFeatures, mRefreshRateConfigs, mForceHDRContentToDefaultRefreshRate,
                   mFeatureStateLock, mCallbackLock, threads, callbackLog>>
    /\ UNCHANGED <<mPrimaryHWVsyncEnabled, mHWVsyncAvailable, mLastResyncTime, now,
                   periodFlushed, mSupportKernelTimer, vsyncThreads>>
    /\ UNCHANGED <<outputVars, connectionVars>>

\* The idle timer of the scheduler resets or expires and runs the callback
\* the constructor gave it: kernelIdleTimerCallback with kernel support,
\* idleTimerCallback and the changeRefreshRate it leads to without.
IdleTimer ==
    \E state \in TimerStates :
        IF mSupportKernelTimer
        THEN /\ VsyncStep(kernelIdleTimerCallback(CurrentHWVsync, mRefreshRateConfigs,
                                                  state))
             /\ UNCHANGED <<mLastResyncTime, periodFlushed>>
        ELSE LET result == idleTimerCallback(mRefreshRateConfigs,
                               mForceHDRContentToDefaultRefreshRate, mFeatures, state)
             IN  /\ mFeatures' = result.features
                 /\ callbackLog' = IF result.change # NoChange /\ mChangeRefreshRateCallback
                                   THEN result.change ELSE callbackLog
                 /\ vsyncCalls' = << <<"idleTimerCallback", B2N(state = "Reset"), 0>> >>
                 /\ UNCHANGED <<mRefreshRateConfigs, mForceHDRContentToDefaultRefreshRate,
                                mChangeRefreshRateCallback, mFeatureStateLock,
                                mCallbackLock, threads>>
                 /\ UNCHANGED <<mPrimaryHWVsyncEnabled, mHWVsyncAvailable,
                                mLastResyncTime, now, periodFlushed, mSupportKernelTimer,
                                vsyncThreads>>
                 /\ UNCHANGED <<outputVars, connectionVars>>

InitVsync ==
    /\ OutputInit
    /\ FeaturesInit(<<RefreshRateConfigs(TRUE, 60, 90, 1), FALSE>>)
    /\ VsyncInit
    /\ mSupportKernelTimer \in BOOLEAN
    /\ ConnectionsInit

NextVsync ==
    \/ Tick
    \/ Resync
    \/ EnableHardwareVsync
    \/ DisableHardwareVsync
    \/ ResyncToHardwareVsync
    \/ AddResyncSample
    \/ AddPresentFence
    \/ SetCurrentConfig
    \/ RegisterChangeRefreshRateCallback
    \/ IdleTimer

SpecVsync == InitVsync /\ [][NextVsync]_vars

(***************************************************************************)
(* SpecConn: connections are created and used.                             *)
(***************************************************************************)
ConnectionStep(registry, log) ==
    /\ mConnections' = registry.mConnections
    /\ mNextConnectionHandleId' = registry.mNextConnectionHandleId
    /\ connectionCalls' = log
    /\ UNCHANGED <<outputVars, featureVars, vsyncVars>>

CreateConnection ==
    /\ mNextConnectionHandleId < MaxConnections
    /\ \E eventThread \in EventThreads :
          /\ \A handle \in DOMAIN mConnections : mConnections[handle] # eventThread
          /\ LET created == createConnection(mConnections, mNextConnectionHandleId,
                                             eventThread)
             IN  ConnectionStep(created,
                                << <<"createConnection", created.handle, eventThread>> >>)

\* An operation on a handle, valid or not.
HandleOperation(operation) ==
    \E handle \in 0..MaxConnections :
        ConnectionStep([mConnections |-> mConnections,
                        mNextConnectionHandleId |-> mNextConnectionHandleId],
                       ForwardToThread(mConnections, operation, handle))

OnHotplugReceived == HandleOperation("onHotplugReceived")
OnScreenAcquired == HandleOperation("onScreenAcquired")
OnScreenReleased == HandleOperation("onScreenReleased")
OnConfigChanged == HandleOperation("onConfigChanged")
SetPhaseOffset == HandleOperation("setPhaseOffset")

InitConn == OutputInit /\ SchedulerInit

NextConn ==
    \/ CreateConnection
    \/ OnHotplugReceived
    \/ OnScreenAcquired
    \/ OnScreenReleased
    \/ OnConfigChanged
    \/ SetPhaseOffset

SpecConn == InitConn /\ [][NextConn]_vars

(***************************************************************************)
(* SpecDisplay: a display, physical or virtual, with or without a HWC      *)
(* display id, through the phases of its frames that involve the composer. *)
(***************************************************************************)
DisplayStep(at, next, st, list, log) ==
    /\ pc = at
    /\ pc' = next
    /\ mState' = st
    /\ mOutputLayersOrderedByZ' = list
    /\ displayCalls' = log
    /\ UNCHANGED <<feState, layers, geomSnapshots, calls, mIsVirtual, schedulerVars>>

\* Output::setCompositionEnabled
DisplaySetCompositionEnabled ==
    \E enabled \in BOOLEAN :
        /\ DisplayStep("idle", "idle", setCompositionEnabled(mState, enabled),
                       mOutputLayersOrderedByZ, <<>>)
        /\ UNCHANGED <<mId, mReleasedLayers, bestDataSpace, expired>>

\* Display::setColorMode
DisplaySetColorMode ==
    \E p \in ColorProfiles, id \in Dereferenced(mId) :
        LET r == Display_setColorMode(mState, mIsVirtual, id, p)
        IN  /\ DisplayStep("idle", IF r.trapped THEN "trapped" ELSE "idle", r.st,
                           mOutputLayersOrderedByZ, r.calls)
            /\ UNCHANGED <<mId, mReleasedLayers, bestDataSpace, expired>>

\* Display::setColorTransform
DisplaySetColorTransform ==
    \E matrix \in ColorMatrices, id \in Dereferenced(mId) :
        LET r == Display_setColorTransform(mState, id, matrix)
        IN  /\ DisplayStep("idle", IF r.trapped THEN "trapped" ELSE "idle", r.st,
                           mOutputLayersOrderedByZ, r.calls)
            /\ UNCHANGED <<mId, mReleasedLayers, bestDataSpace, expired>>

\* Display::getSkipColorTransform
DisplayGetSkipColorTransform ==
    /\ DisplayStep("idle", "idle", mState, mOutputLayersOrderedByZ,
                   Display_getSkipColorTransform(mId))
    /\ UNCHANGED <<mId, mReleasedLayers, bestDataSpace, expired>>

\* Display::setExpensiveRenderingExpected, of a display created with a
\* power advisor or without.
DisplaySetExpensiveRenderingExpected ==
    \E hasPowerAdvisor, enabled \in BOOLEAN :
        /\ DisplayStep("idle", "idle", mState, mOutputLayersOrderedByZ,
                       Display_setExpensiveRenderingExpected(mId, hasPowerAdvisor,
                                                             enabled))
        /\ UNCHANGED <<mId, mReleasedLayers, bestDataSpace, expired>>

\* Display::disconnect
Disconnect ==
    LET r == disconnect(mId)
    IN  /\ DisplayStep("idle", "idle", mState, mOutputLayersOrderedByZ, r.calls)
        /\ mId' = r.mId
        /\ UNCHANGED <<mReleasedLayers, bestDataSpace, expired>>

\* The output layers of a frame, given the list built for it: the output
\* layer of a layer that had one in the last frame is that one, taken over
\* with its state (takeOutputLayerForLayer), here its clearClientTarget.
TakenOver(old, list) ==
    [i \in DOMAIN list |->
        IF \E j \in DOMAIN old : old[j].layer = list[i].layer
        THEN LET j == CHOOSE j \in DOMAIN old : old[j].layer = list[i].layer
             IN  [list[i] EXCEPT !.clearClientTarget = old[j].clearClientTarget]
        ELSE list[i]]

\* A frame starts: Output::setOutputLayersOrderedByZ and
\* Output::setReleasedLayers(ReleasedLayers&&) give the output its layers and
\* the layers released since the last frame, none of them an output layer.
\* An output layer taken over from the last frame keeps its HWC layer.
SetOutputLayersOrderedByZ ==
    \E list \in DisplayLayerLists :
    \E released \in SUBSET (Layers \ {list[i].layer : i \in DOMAIN list}) :
        /\ \A i \in DOMAIN list, j \in DOMAIN mOutputLayersOrderedByZ :
               mOutputLayersOrderedByZ[j].layer = list[i].layer
                   => mOutputLayersOrderedByZ[j].hwcLayer = list[i].hwcLayer
        /\ DisplayStep("idle", "updateColorProfile", mState,
                       TakenOver(mOutputLayersOrderedByZ, list), <<>>)
        /\ mReleasedLayers' = released
        /\ expired' = {}
        /\ UNCHANGED <<mId, bestDataSpace>>

\* The front-end of a released layer is destroyed: its weak reference no
\* longer promotes.
ExpireLayer ==
    /\ pc \notin {"idle", "trapped"}
    /\ \E l \in mReleasedLayers \ expired : expired' = expired \cup {l}
    /\ displayCalls' = <<>>
    /\ UNCHANGED <<mState, mOutputLayersOrderedByZ, feState, layers, geomSnapshots, pc,
                   calls, mId, mIsVirtual, mReleasedLayers, bestDataSpace,
                   schedulerVars>>

\* Output::updateColorProfile: pickColorProfile reads the best data space
\* of the layers; what the display color profile answers is an input.
DisplayUpdateColorProfile(next, Args) ==
    \E refreshArgs \in Args, hasLegacyHdrSupport \in BOOLEAN, p \in ColorProfiles :
        /\ LET picked == pickColorProfile(mOutputLayersOrderedByZ, refreshArgs,
                                          hasLegacyHdrSupport, p)
           IN  DisplayStep("updateColorProfile", next,
                           setColorProfile(mState, picked.profile),
                           mOutputLayersOrderedByZ, picked.calls)
        /\ bestDataSpace' = getBestDataspace(mOutputLayersOrderedByZ,
                                             Len(mOutputLayersOrderedByZ))
        /\ UNCHANGED <<mId, mReleasedLayers, expired>>

\* Output::prepareFrame with Display::chooseCompositionStrategy
DisplayPrepareFrame ==
    \E answer \in HwcAnswers :
        LET r == Display_prepareFrame(mState, mOutputLayersOrderedByZ, mId, answer)
        IN  /\ DisplayStep("prepareFrame", "postFramebuffer", r.st, r.list, r.calls)
            /\ UNCHANGED <<mId, mReleasedLayers, bestDataSpace, expired>>

\* Output::postFramebuffer with Display::presentAndGetFrameFences
DisplayPostFramebuffer ==
    /\ DisplayStep("postFramebuffer", "idle",
                   postFramebuffer(mState, mOutputLayersOrderedByZ).st,
                   mOutputLayersOrderedByZ,
                   onLayerDisplayed(mState, mOutputLayersOrderedByZ, mId,
                                    mReleasedLayers, expired))
    /\ mReleasedLayers' = ReleasedLayersAfterPost(mState, mReleasedLayers)
    /\ UNCHANGED <<mId, bestDataSpace, expired>>

InitDisplay ==
    /\ mState = setCompositionEnabled(
                    setLayerStackFilter(
                        setProjection(setRenderSurface(ConstructedState, 2),
                                      Projection(0, <<0, MaxSize>>)),
                        0, FALSE),
                    TRUE)
    /\ mOutputLayersOrderedByZ = <<>>
    /\ feState = [l \in Layers |-> DefaultFEState]
    /\ layers = <<>>
    /\ geomSnapshots = {}
    /\ pc = "idle"
    /\ calls = {}
    /\ mId \in BOOLEAN
    /\ mIsVirtual \in BOOLEAN
    /\ mReleasedLayers = {}
    /\ displayCalls = <<>>
    /\ bestDataSpace = getBestDataspace(<<>>, 0)
    /\ expired = {}
    /\ SchedulerInit

NextDisplay ==
    \/ DisplaySetCompositionEnabled
    \/ DisplaySetColorMode
    \/ Disconnect
    \/ SetOutputLayersOrderedByZ
    \/ ExpireLayer
    \/ DisplayUpdateColorProfile("prepareFrame",
                                 {CompositionRefreshArgs("kManaged", "NATIVE")})
    \/ DisplayPrepareFrame
    \/ DisplayPostFramebuffer

SpecDisplay == InitDisplay /\ [][NextDisplay]_vars

(***************************************************************************)
(* SpecDisconnect: a display created with a HWC display id is used and     *)
(* disconnected.                                                           *)
(***************************************************************************)
InitConnected ==
    /\ InitDisplay
    /\ mId

NextDisconnect ==
    \/ DisplaySetCompositionEnabled
    \/ DisplaySetColorMode
    \/ DisplaySetColorTransform
    \/ DisplayGetSkipColorTransform
    \/ DisplaySetExpensiveRenderingExpected
    \/ Disconnect
    \/ SetOutputLayersOrderedByZ
    \/ ExpireLayer
    \/ DisplayUpdateColorProfile("prepareFrame",
                                 {CompositionRefreshArgs("kManaged", "NATIVE")})
    \/ DisplayPrepareFrame
    \/ DisplayPostFramebuffer

SpecDisconnect == InitConnected /\ [][NextDisconnect]_vars

(***************************************************************************)
(* SpecDataspace: the color profile of a display is picked for layers of   *)
(* every dataspace.                                                        *)
(***************************************************************************)
\* The layers of the frame, each with the dataspace of its front-end.
SetDataspaceLayers ==
    \E list \in DataspaceLayerLists :
        /\ DisplayStep("idle", "updateColorProfile", mState, list, <<>>)
        /\ UNCHANGED <<mId, mReleasedLayers, bestDataSpace, expired>>

NextDataspace ==
    \/ SetDataspaceLayers
    \/ DisplayUpdateColorProfile("idle",
                                 {CompositionRefreshArgs(setting, mode) :
                                     setting \in OutputColorSettings,
                                     mode \in ForcedColorModes})

SpecDataspace == InitDisplay /\ [][NextDataspace]_vars

(***************************************************************************)
(* SpecRequests: the client composition requests of a display are          *)
(* generated for output layers of every kind.                              *)
(***************************************************************************)
\* An output layer as generateClientCompositionRequests reads it.
RequestOutputLayer(layer, hwcLayer, type, clear, visible) ==
    [layer |-> layer, hwcLayer |-> hwcLayer, hwcCompositionType |-> type,
     clearClientTarget |-> clear, visibleRegion |-> visible]

\* The visible regions: inside the viewport, outside of it.
RequestVisibleRegions == {{0, 1}, {MaxSize}}

RequestLayerLists ==
    ListsOf({RequestOutputLayer(l, NoHwcLayer, "CLIENT", FALSE, v) :
                l \in Layers, v \in RequestVisibleRegions}
            \cup {RequestOutputLayer(l, l, type, clear, v) :
                     l \in Layers, type \in CompositionTypes, clear \in BOOLEAN,
                     v \in RequestVisibleRegions})

\* The front-end states: each layer translucent or opaque.
RequestFEStates ==
    [Layers -> {DefaultFEState,
                FEState(TRUE, TRUE, FALSE, IdentityTransform, {}, 0, FALSE)}]

\* The output layers and the front-end states of the frame.
SetRequestLayers ==
    \E list \in RequestLayerLists, fe \in RequestFEStates :
        /\ pc = "idle"
        /\ pc' = "finishFrame"
        /\ mOutputLayersOrderedByZ' = list
        /\ feState' = fe
        /\ displayCalls' = <<>>
        /\ UNCHANGED <<mState, layers, geomSnapshots, calls, mId, mIsVirtual,
                       mReleasedLayers, expired, bestDataSpace, schedulerVars>>

\* Output::generateClientCompositionRequests, as composeSurfaces calls it;
\* the front-ends that return settings are an input.
GenerateClientCompositionRequests ==
    \E prepared \in SUBSET Layers :
        DisplayStep("finishFrame", "idle", mState, mOutputLayersOrderedByZ,
                    generateClientCompositionRequests(
                        mState, mOutputLayersOrderedByZ, feState, prepared,
                        Len(mOutputLayersOrderedByZ)))
        /\ UNCHANGED <<mId, mReleasedLayers, bestDataSpace, expired>>

NextRequests ==
    \/ SetRequestLayers
    \/ GenerateClientCompositionRequests

SpecRequests == InitDisplay /\ [][NextRequests]_vars

(***************************************************************************)
(* SpecVsyncThreads: threads call the hardware-vsync operations, one       *)
(* critical section on mHWVsyncLock at a time.                             *)
(***************************************************************************)
\* A thread that goes on to a function with the period it was given.
VsyncThread(function, period) == [pc |-> function, period |-> period]

\* Thread t leaves a critical section with the members and the log of v and
\* goes on as next.
VsyncSection(t, v, next) ==
    /\ mPrimaryHWVsyncEnabled' = v.mPrimaryHWVsyncEnabled
    /\ mHWVsyncAvailable' = v.mHWVsyncAvailable
    /\ vsyncCalls' = v.log
    /\ vsyncThreads' = [vsyncThreads EXCEPT ![t] = next]
    /\ UNCHANGED <<outputVars, featureVars, connectionVars, now, mSupportKernelTimer>>

\* Scheduler::resync up to its call of resyncToHardwareVsync.
ThreadResync(t) ==
    /\ vsyncThreads[t].pc = "idle"
    /\ VsyncSection(t, Log(CurrentHWVsync, << <<"resync", 0, 0>> >>),
                    IF now - mLastResyncTime > kIgnoreDelay
                    THEN VsyncThread("resyncToHardwareVsync", CurrentVsyncPeriod)
                    ELSE IdleVsyncThread)
    /\ mLastResyncTime' = now
    /\ UNCHANGED periodFlushed

\* Scheduler::enableHardwareVsync, called or gone on to.
ThreadEnableHardwareVsync(t) ==
    /\ vsyncThreads[t].pc \in {"idle", "enableHardwareVsync"}
    /\ VsyncSection(t, enableHardwareVsync(CurrentHWVsync), IdleVsyncThread)
    /\ UNCHANGED <<mLastResyncTime, periodFlushed>>

\* Scheduler::disableHardwareVsync, called or gone on to with false.
ThreadDisableHardwareVsync(t) ==
    \E makeUnavailable \in BOOLEAN :
        /\ \/ vsyncThreads[t].pc = "idle"
           \/ vsyncThreads[t].pc = "disableHardwareVsync" /\ ~makeUnavailable
        /\ VsyncSection(t, disableHardwareVsync(CurrentHWVsync, makeUnavailable),
                        IdleVsyncThread)
        /\ UNCHANGED <<mLastResyncTime, periodFlushed>>

\* Scheduler::resyncToHardwareVsync up to its call of setVsyncPeriod, called
\* or gone on to from resync with false.
ThreadResyncToHardwareVsync(t) ==
    \E makeAvailable \in BOOLEAN :
        LET called == vsyncThreads[t].pc = "idle"
            period == IF called THEN CurrentVsyncPeriod ELSE vsyncThreads[t].period
            r == resyncToHardwareVsyncSection(CurrentHWVsync, makeAvailable, period)
        IN  /\ \/ called
               \/ vsyncThreads[t].pc = "resyncToHardwareVsync" /\ ~makeAvailable
            /\ VsyncSection(t, r.v, IF r.proceeds THEN VsyncThread("setVsyncPeriod", period)
                                    ELSE IdleVsyncThread)
            /\ UNCHANGED <<mLastResyncTime, periodFlushed>>

\* Scheduler::setVsyncPeriod, gone on to from resyncToHardwareVsync.
ThreadSetVsyncPeriod(t) ==
    /\ vsyncThreads[t].pc = "setVsyncPeriod"
    /\ VsyncSection(t, setVsyncPeriod(CurrentHWVsync, vsyncThreads[t].period),
                    IdleVsyncThread)
    /\ UNCHANGED <<mLastResyncTime, periodFlushed>>

\* Scheduler::addResyncSample up to its call of enableHardwareVsync or
\* disableHardwareVsync.
ThreadAddResyncSample(t) ==
    \E needsHwVsync, flushed \in BOOLEAN :
        LET r == addResyncSampleSection(CurrentHWVsync, needsHwVsync, flushed)
        IN  /\ vsyncThreads[t].pc = "idle"
            /\ VsyncSection(t, r.v, VsyncThread(IF r.needsHwVsync
                                                THEN "enableHardwareVsync"
                                                ELSE "disableHardwareVsync", 0))
            /\ periodFlushed' = r.periodFlushed
            /\ UNCHANGED mLastResyncTime

\* Scheduler::addPresentFence up to its call of enableHardwareVsync or
\* disableHardwareVsync.
ThreadAddPresentFence(t) ==
    \E needsHwVsync \in BOOLEAN :
        /\ vsyncThreads[t].pc = "idle"
        /\ VsyncSection(t, Log(CurrentHWVsync,
                               << <<"addPresentFence", 0, 0>>,
                                  <<"DispSync.addPresentFence", B2N(needsHwVsync), 0>> >>),
                        VsyncThread(IF needsHwVsync THEN "enableHardwareVsync"
                                    ELSE "disableHardwareVsync", 0))
        /\ UNCHANGED <<mLastResyncTime, periodFlushed>>

NextVsyncThreads ==
    \/ Tick
    \/ \E t \in Threads : ThreadResync(t)
    \/ \E t \in Threads : ThreadEnableHardwareVsync(t)
    \/ \E t \in Threads : ThreadDisableHardwareVsync(t)
    \/ \E t \in Threads : ThreadResyncToHardwareVsync(t)
    \/ \E t \in Threads : ThreadSetVsyncPeriod(t)
    \/ \E t \in Threads : ThreadAddResyncSample(t)
    \/ \E t \in Threads : ThreadAddPresentFence(t)

SpecVsyncThreads == InitVsync /\ [][NextVsyncThreads]_vars

(***************************************************************************)
(* Properties.                                                             *)
(***************************************************************************)
\* The last step was rebuildLayerStacks and it ran the visibility pass.
AfterPass ==
    /\ pc = "updateLayerStateFromFE"
    /\ \E n \in 0..NumLayers : <<"createOutputLayer", n>> \in calls

\* This step is rebuildLayerStacks and it runs the visibility pass.
PassStep == pc = "idle" /\ AfterPass'

Created(n) == <<"createOutputLayer", n>> \in calls
Destroyed(n) == <<"destroyOutputLayer", n>> \in calls

\* The bounds of the output in layer-stack space.
BoundsInLayerStackSpace(st) == {x - st.transform.tx : x \in RectRegion(st.bounds)}

RegionUnion(S) == UNION S

\* The list a pass over the input layers gives when there is no previous
\* list and no layer is latched or expired.
FreshPass(ls, fe, st) ==
    collectVisibleLayers(ls, st, InitialCoverage(fe, Layers, <<>>), Layers, fe).out

\* C1 as claimed: in every state dirtyRegion is a subset of bounds.
C1_DirtyWithinBounds == mState.dirtyRegion \subseteq RectRegion(mState.bounds)

\* C1 amended: a step other than a visibility pass leaves dirtyRegion as it
\* is, clears it or sets it to bounds; a visibility pass adds at most the
\* footprints of the input layers and the visible regions of the previous
\* output layers, in layer-stack space and not clipped to bounds.
C1_DirtyRegionSources ==
    [][IF PassStep
       THEN mState'.dirtyRegion \subseteq
                mState.dirtyRegion
                \cup RegionUnion({LayerFootprint(feState'[l]) : l \in Range(layers')})
                \cup RegionUnion({mOutputLayersOrderedByZ[i].visibleRegion :
                                    i \in 1..Len(mOutputLayersOrderedByZ)})
       ELSE \/ mState'.dirtyRegion = mState.dirtyRegion
            \/ mState'.dirtyRegion = {}
            \/ mState'.dirtyRegion = RectRegion(mState'.bounds)]_vars

\* C1 witness: a visibility pass has left dirtyRegion with a cell outside
\* bounds.
C1_Witness == AfterPass /\ ~(mState.dirtyRegion \subseteq RectRegion(mState.bounds))

\* The step is one of the per-frame phases in Phases.
PhaseStepOf(Phases) ==
    \/ "rebuildLayerStacks" \in Phases /\ pc = "idle" /\ pc' = "updateLayerStateFromFE"
    \/ pc \in Phases /\ pc' # pc

NoOpStep ==
    /\ calls' = {}
    /\ UNCHANGED <<mState, mOutputLayersOrderedByZ, feState>>

\* C2 as claimed: while the output is disabled rebuildLayerStacks,
\* beginFrame, prepareFrame, finishFrame and postFramebuffer make no call
\* and change no state.
C2_DisabledPhasesNoOp ==
    [][(~mState.isEnabled
        /\ PhaseStepOf({"rebuildLayerStacks", "beginFrame", "prepareFrame",
                        "finishFrame", "postFramebuffer"}))
       => NoOpStep]_vars

\* C2 amended: while the output is disabled rebuildLayerStacks,
\* prepareFrame, finishFrame and postFramebuffer make no call and change no
\* state; beginFrame has no such check.
C2_DisabledPhasesNoOpButBeginFrame ==
    [][(~mState.isEnabled
        /\ PhaseStepOf({"rebuildLayerStacks", "prepareFrame",
                        "finishFrame", "postFramebuffer"}))
       => NoOpStep]_vars

\* C2 witness: finishFrame has run on a disabled output that has output
\* layers and a dirty region, and made no call.
C2_Witness ==
    /\ ~mState.isEnabled
    /\ pc = "postFramebuffer"
    /\ calls = {}
    /\ mOutputLayersOrderedByZ # <<>>
    /\ getDirtyRegion(mState, FALSE) # {}

\* C3: the ordered list of output layers has no null entry and no two
\* entries for the same layer.
C3_NoNullNoDuplicate ==
    /\ \A i \in 1..Len(mOutputLayersOrderedByZ) :
          mOutputLayersOrderedByZ[i].layer # NoLayer
    /\ \A i, j \in 1..Len(mOutputLayersOrderedByZ) :
          i # j => mOutputLayersOrderedByZ[i].layer # mOutputLayersOrderedByZ[j].layer

\* C3 witness: a pass over two layers has emitted two output layers, one of
\* them taken from the previous list and one created.
C3_Witness ==
    /\ AfterPass
    /\ Len(mOutputLayersOrderedByZ) = 2
    /\ Created(1)

PositionIn(ls, l) == CHOOSE i \in DOMAIN ls : ls[i] = l

\* C4: the output layers are in the order of the input layer list and the
\* i-th of them (from 0) has z = i.
C4_BackToFrontWithZ ==
    /\ \A i \in 1..Len(mOutputLayersOrderedByZ) :
          /\ mOutputLayersOrderedByZ[i].z = i - 1
          /\ mOutputLayersOrderedByZ[i].layer \in Range(layers)
    /\ \A i, j \in 1..Len(mOutputLayersOrderedByZ) :
          i < j => PositionIn(layers, mOutputLayersOrderedByZ[i].layer)
                     < PositionIn(layers, mOutputLayersOrderedByZ[j].layer)

\* C4 witness: a pass has emitted two output layers, both taken from the
\* previous list, for an input list in which layer 2 is behind layer 1.
C4_Witness ==
    /\ AfterPass
    /\ layers = <<2, 1>>
    /\ Len(mOutputLayersOrderedByZ) = 2
    /\ Created(0)

IsOpaqueSimple(fe) == fe.isOpaque /\ ~OrientationInvalid(fe.geomLayerTransform)

\* C5: after a pass, the visible region of an output layer is disjoint from
\* the visible region of every opaque, simply transformed output layer
\* above it.
C5_DisjointBelowOpaque ==
    AfterPass =>
        \A i, j \in 1..Len(mOutputLayersOrderedByZ) :
            (i < j /\ IsOpaqueSimple(feState[mOutputLayersOrderedByZ[j].layer]))
            => mOutputLayersOrderedByZ[i].visibleRegion
                 \cap mOutputLayersOrderedByZ[j].visibleRegion = {}

\* C5 witness: after a pass an output layer is covered in part by an opaque,
\* simply transformed output layer above it.
C5_Witness ==
    /\ AfterPass
    /\ Len(mOutputLayersOrderedByZ) = 2
    /\ IsOpaqueSimple(feState[mOutputLayersOrderedByZ[2].layer])
    /\ mOutputLayersOrderedByZ[1].coveredRegion # {}
    /\ mOutputLayersOrderedByZ[1].visibleRegion # {}

\* C6 as claimed: after a pass, visibleNonTransparentRegion is a subset of
\* visibleRegion and visibleRegion is a subset of the output's bounds in
\* layer-stack space.
C6_VisibleWithinBounds ==
    AfterPass =>
        \A i \in 1..Len(mOutputLayersOrderedByZ) :
            /\ mOutputLayersOrderedByZ[i].visibleNonTransparentRegion
                 \subseteq mOutputLayersOrderedByZ[i].visibleRegion
            /\ mOutputLayersOrderedByZ[i].visibleRegion
                 \subseteq BoundsInLayerStackSpace(mState)

\* C6 amended: after a pass, visibleNonTransparentRegion is a subset of
\* visibleRegion, visibleRegion is a subset of the layer's transformed
\* bounds (it is not clipped to the output), and the part of
\* visibleNonTransparentRegion inside the output's bounds is not empty.
C6_VisibleWithinFootprint ==
    AfterPass =>
        \A i \in 1..Len(mOutputLayersOrderedByZ) :
            /\ mOutputLayersOrderedByZ[i].visibleNonTransparentRegion
                 \subseteq mOutputLayersOrderedByZ[i].visibleRegion
            /\ mOutputLayersOrderedByZ[i].visibleRegion
                 \subseteq LayerFootprint(feState[mOutputLayersOrderedByZ[i].layer])
            /\ DrawRegion(mState, mOutputLayersOrderedByZ[i].visibleNonTransparentRegion) # {}

\* C6 witness: after a pass an output layer has a visible region that
\* reaches beyond the output's bounds and a transparent part.
C6_Witness ==
    /\ AfterPass
    /\ \E i \in 1..Len(mOutputLayersOrderedByZ) :
          ~(mOutputLayersOrderedByZ[i].visibleRegion
              \subseteq BoundsInLayerStackSpace(mState))
    /\ \E i \in 1..Len(mOutputLayersOrderedByZ) :
          mOutputLayersOrderedByZ[i].visibleNonTransparentRegion
            # mOutputLayersOrderedByZ[i].visibleRegion

\* C7 as claimed: in every state no output layer refers to a layer that is
\* not visible.
C7_NeverHidden ==
    \A i \in NonNull(mOutputLayersOrderedByZ) :
        feState[mOutputLayersOrderedByZ[i].layer].isVisible

\* C7 amended: right after a visibility pass no output layer refers to a
\* layer that is not visible.
C7_NotHiddenAfterPass == AfterPass => C7_NeverHidden

\* C7 witness: a pass over a hidden layer and a visible one has emitted an
\* output layer.
C7_Witness ==
    /\ AfterPass
    /\ mOutputLayersOrderedByZ # <<>>
    /\ \E l \in Range(layers) : ~feState[l].isVisible

\* The visibility pass of this step runs over inputs for which a pass gives
\* the list that is there already, with no layer expired.
SameInputsPassStep ==
    /\ PassStep
    /\ \A l \in Layers : <<"Layer.getLayerFE.null", l>> \notin calls'
    /\ mOutputLayersOrderedByZ = FreshPass(layers', feState', mState)

\* C8: a visibility pass over the inputs of the pass that gave the current
\* list leaves the list as it is, output layer by output layer, and creates
\* and destroys no output layer.
C8_PassIdempotent ==
    [][SameInputsPassStep
       => /\ mOutputLayersOrderedByZ' = mOutputLayersOrderedByZ
          /\ Created(0)'
          /\ Destroyed(0)']_vars

\* C8 witness: a pass has taken both of its two output layers from the
\* previous list, creating and destroying none.
C8_Witness ==
    /\ AfterPass
    /\ Len(mOutputLayersOrderedByZ) = 2
    /\ Created(0)
    /\ Destroyed(0)
    /\ mOutputLayersOrderedByZ = FreshPass(layers, feState, mState)

AllClean(ls, fe) == \A l \in Range(ls) : ~fe[l].contentDirty

Emitted(list, l) == \E i \in 1..Len(list) : list[i].layer = l

C10_HadVisibleLayersOnlyOnRecompose ==
    [][(~mState.lastCompositionHadVisibleLayers
        /\ mState'.lastCompositionHadVisibleLayers)
       => /\ pc = "beginFrame"
          /\ MustRecompose(mState, mOutputLayersOrderedByZ)
          /\ mOutputLayersOrderedByZ # <<>>
          /\ <<"RenderSurface.beginFrame", 1>> \in calls']_vars

\* C10 witness: beginFrame has recomposed and set
\* lastCompositionHadVisibleLayers.
C10_Witness ==
    /\ pc = "prepareFrame"
    /\ <<"RenderSurface.beginFrame", 1>> \in calls
    /\ mState.lastCompositionHadVisibleLayers
    /\ mOutputLayersOrderedByZ # <<>>

ReportsRecompose(b) == <<"RenderSurface.beginFrame", B2N(b)>> \in calls

C12_NoSecondBlackFrame ==
    [][/\ (pc = "beginFrame" /\ ~mState.lastCompositionHadVisibleLayers
           /\ mOutputLayersOrderedByZ = <<>>)
          => /\ ReportsRecompose(FALSE)'
             /\ ~mState'.lastCompositionHadVisibleLayers
       /\ (pc # "beginFrame" /\ ~mState.lastCompositionHadVisibleLayers)
          => ~mState'.lastCompositionHadVisibleLayers]_vars

\* C12 witness: beginFrame has skipped an empty list although the dirty
\* region inside the viewport is not empty.
C12_Witness ==
    /\ pc = "prepareFrame"
    /\ mOutputLayersOrderedByZ = <<>>
    /\ ReportsRecompose(FALSE)
    /\ getDirtyRegion(mState, FALSE) # {}
    /\ ~mState.lastCompositionHadVisibleLayers

\* beginFrame skipped in this frame: lastCompositionHadVisibleLayers is not
\* what a recomposition of the current list would have made it.
FrameSkipped ==
    mState.lastCompositionHadVisibleLayers # (mOutputLayersOrderedByZ # <<>>)

PostCalls ==
    {<<"RenderSurface.flip", 0>>, <<"Output.presentAndGetFrameFences", 0>>}
    \cup {<<"LayerFE.onLayerDisplayed", l>> : l \in OutputLayerLayers(mOutputLayersOrderedByZ)}

\* C13 as claimed: in a frame that beginFrame skipped, postFramebuffer
\* does not flip the render surface, present, or call onLayerDisplayed.
C13_SkipDoesNotPost ==
    [][(pc = "postFramebuffer" /\ FrameSkipped) => calls' \cap PostCalls = {}]_vars

\* C13 amended: on an enabled output postFramebuffer flips the render
\* surface, presents, calls onLayerDisplayed on every output layer and
\* clears dirtyRegion in every frame, whether or not beginFrame skipped.
C13_PostsEveryFrame ==
    [][(pc = "postFramebuffer" /\ mState.isEnabled)
       => /\ PostCalls \subseteq calls'
          /\ mState'.dirtyRegion = {}]_vars

\* C13 witness: postFramebuffer has flipped and called onLayerDisplayed in
\* a frame that beginFrame skipped.
C13_Witness ==
    /\ pc = "idle"
    /\ FrameSkipped
    /\ PostCalls \subseteq calls

\* Thread t takes a step that runs a handler's critical section.
SectionStep(t) == threads[t].pc = "idle" /\ threads'[t].pc = "featureSection"

\* The step ran a critical section that went past its early return on an
\* unchanged input: a timer, touch or content feature changed.
TimerChanged ==
    \/ mFeatures'.idleTimer # mFeatures.idleTimer
    \/ mFeatures'.touch # mFeatures.touch
    \/ mFeatures'.displayPowerTimer # mFeatures.displayPowerTimer
ContentChanged ==
    \/ mFeatures'.contentRefreshRate # mFeatures.contentRefreshRate
    \/ mFeatures'.isHDRContent # mFeatures.isHDRContent
Recalculated == (\E t \in Threads : SectionStep(t)) /\ (TimerChanged \/ ContentChanged)

\* The conditions of the decision rules, on features f.
Unsupported == ~mRefreshRateConfigs.refreshRateSwitchingSupported
ForcedHDR(f) == mForceHDRContentToDefaultRefreshRate /\ f.isHDRContent
PowerBoost(f) == ~f.isDisplayPowerStateNormal \/ f.displayPowerTimer = "Reset"

\* C14: whenever a handler recalculates the refresh-rate type, the type it
\* stores follows the ordered rules: DEFAULT when switching is unsupported;
\* else DEFAULT for forced HDR content; else PERFORMANCE when the display
\* power state is not normal or its timer is Reset; else PERFORMANCE when
\* touch is Active; else DEFAULT when the idle timer is Expired; else
\* PERFORMANCE when content detection is Off.
C14_OrderedRules ==
    [][Recalculated =>
        LET f == mFeatures'
            type == f.refreshRateType
        IN  /\ Unsupported => type = "DEFAULT"
            /\ (~Unsupported /\ ForcedHDR(f)) => type = "DEFAULT"
            /\ (~Unsupported /\ ~ForcedHDR(f) /\ PowerBoost(f))
                    => type = "PERFORMANCE"
            /\ (~Unsupported /\ ~ForcedHDR(f) /\ ~PowerBoost(f)
                    /\ f.touch = "Active") => type = "PERFORMANCE"
            /\ (~Unsupported /\ ~ForcedHDR(f) /\ ~PowerBoost(f)
                    /\ f.touch = "Inactive" /\ f.idleTimer = "Expired")
                    => type = "DEFAULT"
            /\ (~Unsupported /\ ~ForcedHDR(f) /\ ~PowerBoost(f)
                    /\ f.touch = "Inactive" /\ f.idleTimer = "Reset"
                    /\ f.contentDetection = "Off") => type = "PERFORMANCE"]_vars

\* Touch has just won over an expired idle timer: the handler stored
\* PERFORMANCE and goes on to changeRefreshRate.
C14_Witness ==
    \E t \in Threads :
        /\ threads[t].pc = "featureSection"
        /\ threads[t].change # NoChange
        /\ ~Unsupported /\ ~ForcedHDR(mFeatures) /\ ~PowerBoost(mFeatures)
        /\ mFeatures.touch = "Active"
        /\ mFeatures.idleTimer = "Expired"
        /\ mFeatures.refreshRateType = "PERFORMANCE"

\* None of the rules 1 to 6 decides for features f.
ContentDecides(f) ==
    /\ ~Unsupported /\ ~ForcedHDR(f) /\ ~PowerBoost(f)
    /\ f.touch = "Inactive" /\ f.idleTimer = "Reset" /\ f.contentDetection = "On"

\* Entry i of the map is a closest one to the rate; its ratio to the rate is
\* within the margin of an integer.
IsClosest(map, rate, i) ==
    \A j \in DOMAIN map : Abs(map[i].fps - rate) <= Abs(map[j].fps - rate)
IntegerRatio(map, rate, i) == WithinMargin(map[i].fps, rate)

\* C15: when rules 1 to 6 do not decide, the stored type is that of the
\* entry closest to the content rate if its ratio is within 0.05 of an
\* integer; else that of the first entry at or after it, in map order, whose
\* ratio is; else that of the closest entry.  Content 45 on {60, 90} gives
\* PERFORMANCE.
C15_ContentBasedChoice ==
    [][(Recalculated /\ ContentDecides(mFeatures')) =>
        LET map == mRefreshRateConfigs.refreshRateMap
            rate == mFeatures'.contentRefreshRate
            type == mFeatures'.refreshRateType
            c == CHOOSE i \in DOMAIN map :
                     IsClosest(map, rate, i)
                     /\ \A j \in DOMAIN map : IsClosest(map, rate, j) => i <= j
            later == {j \in DOMAIN map : j >= c /\ IntegerRatio(map, rate, j)}
        IN  /\ IntegerRatio(map, rate, c) => type = RefreshRateTypes[c]
            /\ (~IntegerRatio(map, rate, c) /\ later # {}) =>
                   \E j \in later : /\ \A k \in later : j <= k
                                    /\ type = RefreshRateTypes[j]
            /\ later = {} => type = RefreshRateTypes[c]
            /\ (rate = 45 /\ map[1].fps = 60 /\ map[2].fps = 90)
                   => type = "PERFORMANCE"]_vars

\* Content of 45 fps on a {60, 90} device has just moved the scheduler to
\* PERFORMANCE: 60 is closest, 60/45 is no integer ratio, 90/45 is.
C15_Witness ==
    \E t \in Threads :
        /\ threads[t].pc = "featureSection"
        /\ threads[t].change = <<"PERFORMANCE", "Changed">>
        /\ ContentDecides(mFeatures)
        /\ mFeatures.contentRefreshRate = 45
        /\ mRefreshRateConfigs.refreshRateMap[1].fps = 60
        /\ mRefreshRateConfigs.refreshRateMap[2].fps = 90
        /\ mFeatures.refreshRateType = "PERFORMANCE"

\* The handlers of timer, touch, display-power-timer and content events.
EventHandlers == {"idleTimerCallback", "touchTimerCallback",
                  "displayPowerTimerCallback", "updateFpsBasedOnContent"}

\* Thread t takes the step that runs the critical section of an event.
EventStep(t) == SectionStep(t) /\ threads'[t].handler \in EventHandlers

\* The type the decision procedure gives for the features after the step.
ComputedType ==
    calculateRefreshRateType(mRefreshRateConfigs,
                             mForceHDRContentToDefaultRefreshRate, mFeatures')

\* The event of thread t goes on to changeRefreshRate, with the computed
\* type, which is now the stored one; or it leaves the stored type alone.
ChangesIff(t, condition) ==
    /\ (threads'[t].change # NoChange) <=> condition
    /\ condition => /\ threads'[t].change[1] = ComputedType
                    /\ mFeatures'.refreshRateType = ComputedType
    /\ ~condition => mFeatures'.refreshRateType = mFeatures.refreshRateType

\* changeRefreshRate invokes the registered callback with the arguments the
\* event gave it, and nothing else invokes the callback.
CallbackDelivers(t) ==
    /\ (threads[t].pc = "changeRefreshRate" /\ threads'[t].pc # "changeRefreshRate"
          /\ mChangeRefreshRateCallback)
            => (threads'[t].pc = "callback" /\ callbackLog' = threads[t].change)
    /\ (threads[t].pc # "callback" /\ threads'[t].pc = "callback")
            => threads[t].pc = "changeRefreshRate"
    /\ callbackLog' # callbackLog
            => \E u \in Threads : /\ threads[u].pc = "changeRefreshRate"
                                  /\ threads'[u].pc = "callback"

EventOf(t) == threads'[t].change[2]

\* C17: the event given to the callback follows from the trigger: None for
\* an idle-timer transition; Changed exactly when content detection is On,
\* else None, for a touch or display-power transition; Changed for a
\* content update.  changeRefreshRate passes it on as it is.
C17_EventByTrigger ==
    [][\A t \in Threads :
          /\ (EventStep(t) /\ threads'[t].change # NoChange) =>
                /\ threads'[t].handler = "idleTimerCallback"
                       => EventOf(t) = "None"
                /\ threads'[t].handler \in {"touchTimerCallback",
                                             "displayPowerTimerCallback"}
                       => /\ mFeatures'.contentDetection = mFeatures.contentDetection
                          /\ EventOf(t) = IF mFeatures.contentDetection = "On"
                                           THEN "Changed" ELSE "None"
                /\ threads'[t].handler = "updateFpsBasedOnContent"
                       => EventOf(t) = "Changed"
          /\ threads[t].change # NoChange =>
                \/ threads'[t].change = threads[t].change
                \/ threads[t].pc = "callbackReturned"
          /\ (threads[t].pc # "callback" /\ threads'[t].pc = "callback")
                => callbackLog' = threads[t].change]_vars

\* A touch transition with content detected has just chosen Changed, while
\* the callback runs with the None of an earlier transition.
C17_Witness ==
    \E t, u \in Threads :
        /\ threads[t].pc = "featureSection"
        /\ mFeatures.contentDetection = "On"
        /\ threads[t].handler = "touchTimerCallback"
        /\ threads[t].change = <<"PERFORMANCE", "Changed">>
        /\ threads[u].pc = "callback"
        /\ callbackLog = threads[u].change
        /\ callbackLog[2] = "None"

\* C19: a thread running the callback holds mCallbackLock and does not hold
\* mFeatureStateLock; whoever holds mFeatureStateLock is inside a critical
\* section and waits for nothing, so a callback that calls
\* getPreferredRefreshRateType gets the mutex.
C19_CallbackOutsideFeatureLock ==
    /\ \A t \in Threads :
          threads[t].pc = "callback" =>
              /\ mCallbackLock = t
              /\ mFeatureStateLock # t
    /\ \A t \in Threads :
          mFeatureStateLock = t => threads[t].pc = "featureSection"

\* The callback runs on one thread while another is inside a critical
\* section on mFeatureStateLock.
C19_Witness ==
    \E t, u \in Threads :
        /\ threads[t].pc = "callback"
        /\ mCallbackLock = t
        /\ threads[u].pc = "featureSection"
        /\ mFeatureStateLock = u

\* The last step entered the scheduler through the named function, and
\* made the given call.
Entered(name) == vsyncCalls # <<>> /\ vsyncCalls[1][1] = name
Called(call) == \E i \in DOMAIN vsyncCalls : vsyncCalls[i] = call

\* resync() called resyncToHardwareVsync(false, current vsync period).
ResyncInvoked == Called(<<"resyncToHardwareVsync", B2N(FALSE), CurrentVsyncPeriod>>)

\* C18 as stated: a resync() less than 750 ms after the previous one does
\* not call resyncToHardwareVsync, one 750 ms or more after it does.
C18_ResyncAtOrAfterDelay ==
    [][Entered("resync")' =>
          /\ ResyncInvoked' <=> (now - mLastResyncTime >= 750)
          /\ mLastResyncTime' = now]_vars

\* C18 amended: a resync() 750 ms or less after the previous one does not
\* call resyncToHardwareVsync, one more than 750 ms after it calls
\* resyncToHardwareVsync(false, current vsync period); either way the call
\* becomes the previous one.
C18_ResyncAfterDelay ==
    [][Entered("resync")' =>
          /\ ResyncInvoked' <=> (now - mLastResyncTime > 750)
          /\ ~ResyncInvoked' => vsyncCalls' = << <<"resync", 0, 0>> >>
          /\ mLastResyncTime' = now]_vars

\* A resync() has just called resyncToHardwareVsync, more than a second after
\* the scheduler was constructed.
C18_Witness ==
    /\ Entered("resync")
    /\ ResyncInvoked
    /\ mLastResyncTime = now
    /\ now > 1000

\* C20: addResyncSample asks DispSync exactly when hardware vsync is
\* enabled.  When it is not, periodFlushed is false and hardware vsync stays
\* disabled; when it is, hardware vsync is enabled afterwards exactly when
\* DispSync returned true.
C20_ForwardsIffEnabled ==
    [][Entered("addResyncSample")' =>
          LET asked == \E r, f \in BOOLEAN :
                           Called(<<"DispSync.addResyncSample", B2N(r), B2N(f)>>)'
              returnedTrue == \E f \in BOOLEAN :
                           Called(<<"DispSync.addResyncSample", B2N(TRUE), B2N(f)>>)'
          IN  /\ asked <=> mPrimaryHWVsyncEnabled
              /\ ~mPrimaryHWVsyncEnabled =>
                     /\ ~periodFlushed'
                     /\ ~mPrimaryHWVsyncEnabled'
              /\ mPrimaryHWVsyncEnabled =>
                     (mPrimaryHWVsyncEnabled' <=> returnedTrue)]_vars

\* DispSync has just answered that it needs no more samples, and hardware
\* vsync was switched off while still available.
C20_Witness ==
    /\ Entered("addResyncSample")
    /\ \E f \in BOOLEAN : Called(<<"DispSync.addResyncSample", B2N(FALSE), B2N(f)>>)
    /\ Called(<<"EventControlThread.setVsyncEnabled", B2N(FALSE), 0>>)
    /\ ~mPrimaryHWVsyncEnabled
    /\ mHWVsyncAvailable

\* The operations that take a connection handle.
HandleOperations == {"onHotplugReceived", "onScreenAcquired", "onScreenReleased",
                     "onConfigChanged", "setPhaseOffset"}

\* C29: createConnection returns a handle greater than every handle returned
\* before and registers the given event thread under it, leaving the
\* earlier connections as they are; an operation on a registered handle
\* makes exactly one call, to the event thread registered with the handle.
C29_MonotonicHandles ==
    [][/\ \A handle \in DOMAIN mConnections :
             /\ handle \in DOMAIN mConnections'
             /\ mConnections'[handle] = mConnections[handle]
       /\ (connectionCalls' # <<>> /\ connectionCalls'[1][1] = "createConnection") =>
             LET returned == connectionCalls'[1][2]
             IN  /\ \A handle \in DOMAIN mConnections : returned > handle
                 /\ DOMAIN mConnections' = DOMAIN mConnections \cup {returned}
                 /\ mConnections'[returned] = connectionCalls'[1][3]
       /\ (connectionCalls' # <<>> /\ connectionCalls'[1][1] \in HandleOperations
             /\ connectionCalls'[1][2] \in DOMAIN mConnections) =>
             connectionCalls' =
                 << connectionCalls'[1],
                    <<"EventThread", connectionCalls'[1][2],
                      mConnections[connectionCalls'[1][2]]>> >>]_vars

\* With two connections registered, an operation on the second handle has
\* just been forwarded to the second event thread.
C29_Witness ==
    /\ DOMAIN mConnections = {0, 1}
    /\ mConnections[0] # mConnections[1]
    /\ Len(connectionCalls) = 2
    /\ connectionCalls[1][1] = "onScreenAcquired"
    /\ connectionCalls[2] = <<"EventThread", 1, mConnections[1]>>

\* The idle timer fired in the step, with the given state.
IdleTimerFired(state) ==
    /\ vsyncCalls' # <<>>
    /\ vsyncCalls'[1][1] \in {"kernelIdleTimerCallback", "idleTimerCallback"}
    /\ vsyncCalls'[1][2] = B2N(state = "Reset")

\* C21: with kernel idle-timer support an idle-timer transition leaves the
\* features as they are and invokes no refresh-rate callback; a reset at
\* the PERFORMANCE rate calls resyncToHardwareVsync(true, period of the
\* current rate), an expiry at another rate calls disableHardwareVsync(false),
\* and the two other combinations make no call and leave hardware vsync alone.
C21_KernelIdleTimer ==
    [][\A state \in TimerStates :
          (mSupportKernelTimer /\ IdleTimerFired(state)) =>
              LET refreshRate == getCurrentRefreshRate(mRefreshRateConfigs)
                  resyncCall == <<"resyncToHardwareVsync", 1, refreshRate[2].vsyncPeriod>>
                  disableCall == <<"disableHardwareVsync", 0, 0>>
              IN  /\ mFeatures' = mFeatures
                  /\ callbackLog' = callbackLog
                  /\ mChangeRefreshRateCallback' = mChangeRefreshRateCallback
                  /\ IF state = "Reset" /\ refreshRate[1] = "PERFORMANCE"
                     THEN /\ vsyncCalls'[2] = resyncCall
                          /\ ~Called(disableCall)'
                          /\ mHWVsyncAvailable' /\ mPrimaryHWVsyncEnabled'
                     ELSE IF state = "Expired" /\ refreshRate[1] # "PERFORMANCE"
                     THEN /\ vsyncCalls'[2] = disableCall
                          /\ \A i \in DOMAIN vsyncCalls' :
                                 vsyncCalls'[i][1] # "resyncToHardwareVsync"
                          /\ ~mPrimaryHWVsyncEnabled'
                          /\ mHWVsyncAvailable' = mHWVsyncAvailable
                     ELSE /\ Len(vsyncCalls') = 1
                          /\ mPrimaryHWVsyncEnabled' = mPrimaryHWVsyncEnabled
                          /\ mHWVsyncAvailable' = mHWVsyncAvailable]_vars

\* With kernel support and a registered callback, the timer has just been
\* reset at the PERFORMANCE rate and hardware vsync was made available and
\* enabled.
C21_Witness ==
    /\ mSupportKernelTimer
    /\ mChangeRefreshRateCallback
    /\ getCurrentRefreshRate(mRefreshRateConfigs)[1] = "PERFORMANCE"
    /\ Len(vsyncCalls) > 2
    /\ vsyncCalls[1] = <<"kernelIdleTimerCallback", 1, 0>>
    /\ vsyncCalls[2][1] = "resyncToHardwareVsync"
    /\ Called(<<"EventControlThread.setVsyncEnabled", 1, 0>>)
    /\ mPrimaryHWVsyncEnabled

ClientFinishFrame ==
    /\ pc = "finishFrame" /\ pc' = "postFramebuffer"
    /\ mState.isEnabled /\ mState.usesClientComposition

ComposeCalls == {<<"RenderEngine.drawLayers", 0>>,
                 <<"Output.setExpensiveRenderingExpected", 1>>,
                 <<"Output.setExpensiveRenderingExpected", 0>>}

\* C26: when the output composes on the client and dequeueBuffer gives no
\* buffer, the frame makes no call of drawLayers, setExpensiveRenderingExpected
\* or queueBuffer and changes no state; whenever dequeueBuffer gives a
\* buffer, after a failed frame or not, the layers are drawn, with the
\* expensive-rendering hint around the draw for a DISPLAY_P3 output, and the
\* buffer is queued.
C26_DequeueFailureSkipsFrame ==
    [][ClientFinishFrame =>
          /\ mState' = mState
          /\ <<"RenderSurface.dequeueBuffer", 0>> \in calls' =>
                 /\ calls' \cap ComposeCalls = {}
                 /\ <<"RenderSurface.queueBuffer", 0>> \notin calls'
          /\ <<"RenderSurface.dequeueBuffer", 0>> \notin calls' =>
                 /\ <<"RenderSurface.dequeueBuffer", 1>> \in calls'
                 /\ <<"RenderEngine.drawLayers", 0>> \in calls'
                 /\ <<"RenderSurface.queueBuffer", 0>> \in calls'
                 /\ (mState.dataspace = "DISPLAY_P3") =
                        (<<"Output.setExpensiveRenderingExpected", 1>> \in calls')
                 /\ (mState.dataspace = "DISPLAY_P3") =
                        (<<"Output.setExpensiveRenderingExpected", 0>> \in calls')]_vars

\* finishFrame has just failed to dequeue a buffer for a DISPLAY_P3 output
\* with a layer to draw on the client.
C26_Witness ==
    /\ pc = "postFramebuffer"
    /\ mState.isEnabled /\ mState.usesClientComposition
    /\ mState.dataspace = "DISPLAY_P3"
    /\ <<"RenderSurface.dequeueBuffer", 0>> \in calls
    /\ \E l \in Layers : <<"LayerFE.prepareClientComposition", l>> \in calls

\* prepareFrame ran in the step, on an enabled display.
PrepareFrameStep ==
    /\ pc = "prepareFrame" /\ pc' = "postFramebuffer"
    /\ mState.isEnabled

\* The step asked the composer for its changes and got the given status.
AskedComposer(error) ==
    \E i \in DOMAIN displayCalls' :
        /\ displayCalls'[i][1] = "HWComposer.getDeviceCompositionChanges"
        /\ displayCalls'[i][2] = B2N(error)

\* The composition type the step gave the layer, if it gave it one.
TypeChanges(layer) ==
    {type \in CompositionTypes :
        \E i \in DOMAIN displayCalls' :
            displayCalls'[i] = <<"OutputLayer.applyDeviceCompositionTypeChange", layer,
                                 {<<type, 0>>}>>}

\* C22: on a display with a HWC id whose getDeviceCompositionChanges
\* succeeds, the output layers take the types the device changed, and with
\* these types usesClientComposition is set exactly when some output layer
\* requires client composition and usesDeviceComposition exactly when some
\* output layer does not.
C22_StrategyFromFinalTypes ==
    [][(PrepareFrameStep /\ mId /\ AskedComposer(FALSE)) =>
          /\ Len(mOutputLayersOrderedByZ') = Len(mOutputLayersOrderedByZ)
          /\ \A i \in DOMAIN mOutputLayersOrderedByZ :
                /\ mOutputLayersOrderedByZ'[i].hwcLayer = mOutputLayersOrderedByZ[i].hwcLayer
                /\ mOutputLayersOrderedByZ'[i].hwcCompositionType \in
                       IF TypeChanges(mOutputLayersOrderedByZ[i].layer) # {}
                       THEN TypeChanges(mOutputLayersOrderedByZ[i].layer)
                       ELSE {mOutputLayersOrderedByZ[i].hwcCompositionType}
          /\ mState'.usesClientComposition =
                (\E i \in DOMAIN mOutputLayersOrderedByZ' :
                    \/ mOutputLayersOrderedByZ'[i].hwcLayer = NoHwcLayer
                    \/ mOutputLayersOrderedByZ'[i].hwcCompositionType = "CLIENT")
          /\ mState'.usesDeviceComposition =
                (\E i \in DOMAIN mOutputLayersOrderedByZ' :
                    /\ mOutputLayersOrderedByZ'[i].hwcLayer # NoHwcLayer
                    /\ mOutputLayersOrderedByZ'[i].hwcCompositionType = "DEVICE")]_vars

\* The composer has just made one of two layers with a HWC layer a
\* client-composed one: the frame uses both kinds of composition.
C22_Witness ==
    /\ pc = "postFramebuffer"
    /\ mId
    /\ mState.usesClientComposition /\ mState.usesDeviceComposition
    /\ Len(mOutputLayersOrderedByZ) = 2
    /\ \A i \in DOMAIN mOutputLayersOrderedByZ :
           mOutputLayersOrderedByZ[i].hwcLayer # NoHwcLayer
    /\ \E i \in DOMAIN displayCalls :
           /\ displayCalls[i][1] = "OutputLayer.applyDeviceCompositionTypeChange"
           /\ displayCalls[i][3] = {<<"CLIENT", 0>>}

\* C23: without a HWC display id, or when getDeviceCompositionChanges fails,
\* prepareFrame leaves usesClientComposition set and usesDeviceComposition
\* clear, leaves the output layers and flipClientTarget as they were and
\* applies no change or request to an output layer.
C23_ClientOnlyWithoutComposer ==
    [][(PrepareFrameStep /\ (~mId \/ AskedComposer(TRUE))) =>
          /\ mState'.usesClientComposition
          /\ ~mState'.usesDeviceComposition
          /\ mState'.flipClientTarget = mState.flipClientTarget
          /\ mOutputLayersOrderedByZ' = mOutputLayersOrderedByZ
          /\ \A i \in DOMAIN displayCalls' :
                displayCalls'[i][1] \in {"HWComposer.getDeviceCompositionChanges",
                                         "RenderSurface.prepareFrame"}
          /\ ~mId => ~AskedComposer(TRUE) /\ ~AskedComposer(FALSE)]_vars

\* The composer has just failed on a display whose only layer is composed
\* by the device: the frame is composed by the client.
C23_Witness ==
    /\ pc = "postFramebuffer"
    /\ mId
    /\ \E i \in DOMAIN displayCalls :
           /\ displayCalls[i][1] = "HWComposer.getDeviceCompositionChanges"
           /\ displayCalls[i][2] = B2N(TRUE)
    /\ Len(mOutputLayersOrderedByZ) = 1
    /\ mOutputLayersOrderedByZ[1].hwcLayer # NoHwcLayer
    /\ mOutputLayersOrderedByZ[1].hwcCompositionType = "DEVICE"
    /\ mState.usesClientComposition /\ ~mState.usesDeviceComposition

\* postFramebuffer ran in the step.
PostFramebufferStep == pc = "postFramebuffer" /\ pc' = "idle"

\* The onLayerDisplayed calls the step made to the front-end of the layer.
DisplayedCalls(layer) ==
    {i \in DOMAIN displayCalls' :
        /\ displayCalls'[i][1] = "LayerFE.onLayerDisplayed"
        /\ displayCalls'[i][2] = layer}

\* C24: in a postFramebuffer on an enabled output the front-end of every
\* output layer gets onLayerDisplayed exactly once, with the release fence
\* the composer gave for its HWC layer, or NO_FENCE when the layer has no
\* HWC layer or the display no id, merged with the client target acquire
\* fence exactly when the frame uses client composition.
C24_ReleaseFencePerOutputLayer ==
    [][(PostFramebufferStep /\ mState.isEnabled) =>
          \A i \in DOMAIN mOutputLayersOrderedByZ :
              LET outputLayer == mOutputLayersOrderedByZ[i]
                  fromComposer == IF mId /\ outputLayer.hwcLayer # NoHwcLayer
                                  THEN {<<"release", outputLayer.hwcLayer>>}
                                  ELSE {}
                  fromClient == IF mState.usesClientComposition
                                THEN {<<"clientTargetAcquire", 0>>}
                                ELSE {}
              IN  /\ Cardinality(DisplayedCalls(outputLayer.layer)) = 1
                  /\ \A j \in DisplayedCalls(outputLayer.layer) :
                         displayCalls'[j][3] = fromComposer \cup fromClient]_vars

\* A frame that used client composition has just been posted on a display
\* with an id: a layer with a HWC layer got its release fence merged with
\* the client target acquire fence, a layer without one the acquire fence
\* alone.
C24_Witness ==
    /\ pc = "idle"
    /\ mId /\ mState.isEnabled /\ mState.usesClientComposition
    /\ Len(mOutputLayersOrderedByZ) = 2
    /\ Len(displayCalls) = 2
    /\ \E i, j \in DOMAIN displayCalls :
           /\ displayCalls[i][1] = "LayerFE.onLayerDisplayed"
           /\ displayCalls[i][3] = {<<"release", displayCalls[i][2]>>,
                                    <<"clientTargetAcquire", 0>>}
           /\ displayCalls[j][1] = "LayerFE.onLayerDisplayed"
           /\ displayCalls[j][3] = {<<"clientTargetAcquire", 0>>}

\* C25 as claimed: every postFramebuffer leaves the set of released layers
\* empty and notifies each released layer that still promotes once.
C25_ReleasedLayersClearedEveryFrame ==
    [][PostFramebufferStep =>
          /\ mReleasedLayers' = {}
          /\ \A l \in mReleasedLayers \ expired :
                 Cardinality(DisplayedCalls(l)) = 1]_vars

\* C25: a postFramebuffer on an enabled output leaves the set of released
\* layers empty, after one onLayerDisplayed with the present fence of the
\* frame to each released layer that still promotes and none to the others;
\* on a disabled output it notifies no layer and leaves the set as it is.
C25_ReleasedLayersClearedWhenEnabled ==
    [][PostFramebufferStep =>
          IF mState.isEnabled
          THEN /\ mReleasedLayers' = {}
               /\ \A l \in mReleasedLayers :
                     /\ Cardinality(DisplayedCalls(l)) = IF l \in expired THEN 0 ELSE 1
                     /\ \A j \in DisplayedCalls(l) :
                            displayCalls'[j][3] = IF mId THEN {<<"present", 0>>} ELSE {}
          ELSE /\ mReleasedLayers' = mReleasedLayers
               /\ displayCalls' = <<>>]_vars

\* A frame with two released layers, one of them destroyed since, has just
\* been posted: the other got the present fence and the set is empty.
C25_Witness ==
    /\ pc = "idle"
    /\ mId /\ mState.isEnabled
    /\ mReleasedLayers = {}
    /\ expired # {}
    /\ Len(displayCalls) = 1
    /\ displayCalls[1][1] = "LayerFE.onLayerDisplayed"
    /\ displayCalls[1][2] \notin expired
    /\ displayCalls[1][3] = {<<"present", 0>>}

\* C30: on a virtual display setColorMode, whatever its arguments and the
\* state, leaves the color mode, the dataspace, the render intent, the target
\* dataspace and the dirty region, with the rest of the state, as they were
\* and makes no setActiveColorMode call.
C30_VirtualIgnoresColorMode ==
    [][(/\ mIsVirtual
        /\ displayCalls' # <<>>
        /\ displayCalls'[1][1] = "Display.setColorMode") =>
          /\ mState'.colorMode = mState.colorMode
          /\ mState'.dataspace = mState.dataspace
          /\ mState'.renderIntent = mState.renderIntent
          /\ mState'.targetDataspace = mState.targetDataspace
          /\ mState'.dirtyRegion = mState.dirtyRegion
          /\ mState' = mState
          /\ \A i \in DOMAIN displayCalls' :
                displayCalls'[i][1] # "HWComposer.setActiveColorMode"]_vars

\* setColorMode has just been called for the NATIVE mode on a virtual
\* display that a frame put in the DISPLAY_P3 mode and left with nothing
\* dirty.
C30_Witness ==
    /\ mIsVirtual
    /\ displayCalls = << <<"Display.setColorMode", 0, {<<"NATIVE", 0>>}>> >>
    /\ mState.colorMode = "DISPLAY_P3"
    /\ mState.dataspace = "DISPLAY_P3"
    /\ mState.dirtyRegion = {}

\* The dataspaces named by the rule for DISPLAY_BT2020.
BT2020Family == {"V0_SCRGB", "V0_SCRGB_LINEAR", "BT2020", "BT2020_ITU", "BT2020_LINEAR",
                 "DISPLAY_BT2020"}

\* C27 as claimed, for layers without HDR content: the best dataspace picked
\* for the output layers is DISPLAY_BT2020 if one of them has a dataspace of
\* the BT2020 family, otherwise DISPLAY_P3 if one of them has DISPLAY_P3,
\* otherwise sRGB, whatever their z order.
C27_WidestGamutPresent ==
    (/\ pc = "idle"
     /\ \A i \in DOMAIN mOutputLayersOrderedByZ :
            mOutputLayersOrderedByZ[i].dataspace \in
                BT2020Family \cup {"DISPLAY_P3", "V0_SRGB"}) =>
        bestDataSpace.bestDataSpace =
            IF \E i \in DOMAIN mOutputLayersOrderedByZ :
                   mOutputLayersOrderedByZ[i].dataspace \in BT2020Family
            THEN "DISPLAY_BT2020"
            ELSE IF \E i \in DOMAIN mOutputLayersOrderedByZ :
                        mOutputLayersOrderedByZ[i].dataspace = "DISPLAY_P3"
            THEN "DISPLAY_P3"
            ELSE "V0_SRGB"

\* The color profile has just been picked for a BT2020 layer at the back
\* and a DISPLAY_P3 layer in front of it: the best dataspace is DISPLAY_P3.
C27_Witness ==
    /\ pc = "idle"
    /\ Len(mOutputLayersOrderedByZ) = 2
    /\ mOutputLayersOrderedByZ[1].dataspace = "BT2020"
    /\ mOutputLayersOrderedByZ[2].dataspace = "DISPLAY_P3"
    /\ bestDataSpace.bestDataSpace = "DISPLAY_P3"

\* Thread t returns from the scheduler: its event completes.
EventCompletes(t) == threads[t].pc # "idle" /\ threads'[t].pc = "idle"

\* No thread is inside the scheduler.
NoEventInFlight == \A t \in Threads : threads[t].pc = "idle"

\* C31 as claimed: when an event completes and no other is in flight, the
\* stored refresh-rate type is the one the ordered decision procedure gives
\* for the features as they then are.
C31_TypeFollowsFeatures ==
    [][(\E t \in Threads : EventCompletes(t)) /\ NoEventInFlight' =>
          mFeatures'.refreshRateType =
              calculateRefreshRateType(mRefreshRateConfigs,
                                       mForceHDRContentToDefaultRefreshRate,
                                       mFeatures')]_vars

\* The idle timer has expired and moved the scheduler to DEFAULT, then
\* setDisplayPowerState(false) has completed: the display power state is not
\* normal, which the procedure answers with PERFORMANCE, and the stored type
\* is still DEFAULT.
C31_Witness ==
    /\ NoEventInFlight
    /\ ~Unsupported /\ ~ForcedHDR(mFeatures)
    /\ mFeatures.idleTimer = "Expired"
    /\ mFeatures.touch = "Inactive"
    /\ mFeatures.displayPowerTimer = "Expired"
    /\ ~mFeatures.isDisplayPowerStateNormal
    /\ mFeatures.refreshRateType = "DEFAULT"
    /\ calculateRefreshRateType(mRefreshRateConfigs,
                                mForceHDRContentToDefaultRefreshRate,
                                mFeatures) = "PERFORMANCE"

\* The requests pushed to clientCompositionLayers: those of the calls of
\* prepareClientComposition that returned settings.
ClientCompositionLayers == SelectSeq(displayCalls, LAMBDA r : r.result)

\* The position of the output layer of a layer in the ordered list.
OutputLayerIndex(l) ==
    CHOOSE i \in DOMAIN mOutputLayersOrderedByZ : mOutputLayersOrderedByZ[i].layer = l

\* The clip of the i-th output layer is not empty.
HasClip(i) ==
    RectRegion(mState.viewport) \cap mOutputLayersOrderedByZ[i].visibleRegion # {}

\* C32: the requests generated for a frame are in back-to-front order, at
\* most one per output layer; none of them is a clear request for the
\* back-most output layer; a clear request is only made for an output layer
\* that does not require client composition, has clearClientTarget set, an
\* opaque front-end and a non-empty clip; and every output layer with a
\* non-empty clip that requires client composition has its front-end asked
\* for a request that is not a clear.
C32_ClearNeverForFirstLayer ==
    pc = "idle" =>
        LET list == mOutputLayersOrderedByZ
            requests == ClientCompositionLayers
        IN  /\ \A i, j \in DOMAIN displayCalls :
                   i < j => OutputLayerIndex(displayCalls[i].layer)
                                < OutputLayerIndex(displayCalls[j].layer)
            /\ \A i \in DOMAIN requests :
                   \E j \in DOMAIN displayCalls : displayCalls[j] = requests[i]
            /\ \A i \in DOMAIN requests :
                   requests[i].clear =>
                       LET k == OutputLayerIndex(requests[i].layer)
                       IN  /\ k # 1
                           /\ ~requiresClientComposition(list[k])
                           /\ list[k].clearClientTarget
                           /\ feState[list[k].layer].isOpaque
                           /\ HasClip(k)
            /\ \A k \in DOMAIN list :
                   (HasClip(k) /\ requiresClientComposition(list[k])) =>
                       \E i \in DOMAIN displayCalls :
                           /\ displayCalls[i].layer = list[k].layer
                           /\ ~displayCalls[i].clear

\* Two opaque layers composed by the device, both asked by the device to
\* clear the client target and both with a clip: the requests generated are
\* one clear request, for the front layer.
C32_Witness ==
    /\ pc = "idle"
    /\ Len(mOutputLayersOrderedByZ) = 2
    /\ \A k \in 1..2 :
           /\ ~requiresClientComposition(mOutputLayersOrderedByZ[k])
           /\ mOutputLayersOrderedByZ[k].clearClientTarget
           /\ feState[mOutputLayersOrderedByZ[k].layer].isOpaque
           /\ HasClip(k)
    /\ Len(ClientCompositionLayers) = 1
    /\ ClientCompositionLayers[1].clear
    /\ ClientCompositionLayers[1].layer = mOutputLayersOrderedByZ[2].layer

\* What the log of the step holds of the answer of the composer: whether the
\* query succeeded with changes, and whether the layer requests of these
\* changes ask the output layer to clear the client target.
ComposerChanges ==
    \E i \in DOMAIN displayCalls' :
        /\ displayCalls'[i][1] = "HWComposer.getDeviceCompositionChanges"
        /\ displayCalls'[i][2] = B2N(FALSE)
        /\ <<"changes", 0>> \in displayCalls'[i][3]
RequestedClear(outputLayer) ==
    /\ outputLayer.hwcLayer # NoHwcLayer
    /\ \E i \in DOMAIN displayCalls' :
           /\ displayCalls'[i][1] = "HWComposer.getDeviceCompositionChanges"
           /\ displayCalls'[i][2] = B2N(FALSE)
           /\ <<"clearClientTarget", outputLayer.hwcLayer>> \in displayCalls'[i][3]

\* C33 as claimed: after chooseCompositionStrategy on a display with a HWC
\* id, an output layer has clearClientTarget set only if the layer requests
\* the composer gave for this frame ask for it, which they do not when the
\* composer reports no changes or the query fails.
C33_ClearOnlyIfRequestedThisFrame ==
    [][(PrepareFrameStep /\ mId) =>
          \A i \in DOMAIN mOutputLayersOrderedByZ' :
              mOutputLayersOrderedByZ'[i].clearClientTarget
                  => RequestedClear(mOutputLayersOrderedByZ'[i])]_vars

\* C33 amended: after chooseCompositionStrategy on a display with a HWC id,
\* when the query succeeded and the composer reported changes, an output
\* layer has clearClientTarget set exactly when the layer requests of this
\* frame ask for it; when the composer reported no changes or the query
\* failed, every output layer has the clearClientTarget it had before.
C33_ClearResetOnlyWithChanges ==
    [][(PrepareFrameStep /\ mId) =>
          /\ Len(mOutputLayersOrderedByZ') = Len(mOutputLayersOrderedByZ)
          /\ \A i \in DOMAIN mOutputLayersOrderedByZ :
                mOutputLayersOrderedByZ'[i].clearClientTarget =
                    IF ComposerChanges
                    THEN RequestedClear(mOutputLayersOrderedByZ[i])
                    ELSE mOutputLayersOrderedByZ[i].clearClientTarget]_vars

\* The composer has just reported no changes, and an output layer still has
\* the clearClientTarget an earlier frame gave it.
C33_Witness ==
    /\ pc = "postFramebuffer"
    /\ mId /\ mState.isEnabled
    /\ \E i \in DOMAIN displayCalls :
           /\ displayCalls[i][1] = "HWComposer.getDeviceCompositionChanges"
           /\ displayCalls[i][2] = B2N(FALSE)
           /\ displayCalls[i][3] = {}
    /\ \E i \in DOMAIN mOutputLayersOrderedByZ :
           /\ mOutputLayersOrderedByZ[i].hwcLayer # NoHwcLayer
           /\ mOutputLayersOrderedByZ[i].clearClientTarget

\* The color profile has just been picked under a managed or an enhanced
\* color setting.
PickedManagedOrEnhanced ==
    /\ pc = "idle"
    /\ displayCalls # <<>>
    /\ displayCalls[1][1] = "Output.pickColorProfile"
    /\ displayCalls[1][3] \cap {<<"kManaged", 0>>, <<"kEnhanced", 0>>} # {}

\* What pickColorProfile asked of getBestColorMode: the data space and the
\* render intent.
AskedOfBestColorMode ==
    LET i == CHOOSE i \in DOMAIN displayCalls :
                 displayCalls[i][1] = "DisplayColorProfile.getBestColorMode"
    IN  displayCalls[i][3]

\* The display color profile was asked for legacy HDR support and denied it.
NoLegacyHdrSupport ==
    \E i \in DOMAIN displayCalls :
        /\ displayCalls[i][1] = "DisplayColorProfile.hasLegacyHdrSupport"
        /\ displayCalls[i][2] = B2N(FALSE)

\* C34 as claimed: under a managed or enhanced color setting, the data space
\* asked of the display color profile is the HDR data space, with a
\* TONE_MAP_* render intent, exactly when some output layer is BT2020_PQ or
\* BT2020_HLG, the display color profile has no legacy HDR support for the
\* HDR data space and no such output layer has forceClientComposition set;
\* the HDR data space is BT2020_PQ when a PQ layer is present and BT2020_HLG
\* when only HLG layers are.
C34_HdrPromotion ==
    PickedManagedOrEnhanced =>
        LET list == mOutputLayersOrderedByZ
            hdrLayers == {i \in DOMAIN list : list[i].dataspace \in HdrDataspaces}
            hdrDataSpace == IF \E i \in hdrLayers : list[i].dataspace = "BT2020_PQ"
                            THEN "BT2020_PQ" ELSE "BT2020_HLG"
            promotes == /\ hdrLayers # {}
                        /\ NoLegacyHdrSupport
                        /\ \A i \in hdrLayers : ~list[i].forceClientComposition
            toneMapped == AskedOfBestColorMode \cap {<<"TONE_MAP_COLORIMETRIC", 1>>,
                                                     <<"TONE_MAP_ENHANCE", 1>>} # {}
            askedHdr == AskedOfBestColorMode \cap {<<"BT2020_PQ", 0>>,
                                                   <<"BT2020_HLG", 0>>}
        IN  /\ promotes => (askedHdr = {<<hdrDataSpace, 0>>} /\ toneMapped)
            /\ ~promotes => (askedHdr = {} /\ ~toneMapped)

\* The color profile has just been picked, under the managed setting, for a
\* single BT2020_HLG layer forced to client composition: the display color
\* profile was asked for BT2020_HLG with a tone-mapping render intent.
C34_Witness ==
    /\ PickedManagedOrEnhanced
    /\ Len(mOutputLayersOrderedByZ) = 1
    /\ mOutputLayersOrderedByZ[1].dataspace = "BT2020_HLG"
    /\ mOutputLayersOrderedByZ[1].forceClientComposition
    /\ AskedOfBestColorMode = {<<"BT2020_HLG", 0>>, <<"TONE_MAP_COLORIMETRIC", 1>>}

\* The number of calls of name with argument arg in a log.
CallCount(log, name, arg) ==
    Cardinality({i \in DOMAIN log : log[i][1] = name /\ log[i][2] = arg})

\* C35: in every reachable state, also when threads call the vsync
\* operations concurrently, hardware vsync is not enabled while it is marked
\* unavailable.
C35_EnabledOnlyWhileAvailable ==
    mPrimaryHWVsyncEnabled => mHWVsyncAvailable

\* C35 witness: a thread found vsync available in resyncToHardwareVsync,
\* another made it unavailable, and setVsyncPeriod then enabled it.
C35_Witness ==
    /\ CallCount(vsyncCalls, "setVsyncPeriod", CurrentVsyncPeriod) = 1
    /\ CallCount(vsyncCalls, "EventControlThread.setVsyncEnabled", B2N(TRUE)) = 1
    /\ mPrimaryHWVsyncEnabled
    /\ ~mHWVsyncAvailable

\* C40: the calls of setVsyncEnabled alternate between true and false and
\* start with true, a call with true comes with one beginResync and a call
\* with false with one endResync, and mPrimaryHWVsyncEnabled is the argument
\* of the last call.
C40_SetVsyncEnabledAlternates ==
    [][LET on == CallCount(vsyncCalls', "EventControlThread.setVsyncEnabled", B2N(TRUE))
           off == CallCount(vsyncCalls', "EventControlThread.setVsyncEnabled", B2N(FALSE))
           begin == CallCount(vsyncCalls', "DispSync.beginResync", 0)
           end == CallCount(vsyncCalls', "DispSync.endResync", 0)
       IN  /\ on + off <= 1
           /\ on = 1 => /\ ~mPrimaryHWVsyncEnabled /\ mPrimaryHWVsyncEnabled'
                        /\ begin = 1 /\ end = 0
           /\ off = 1 => /\ mPrimaryHWVsyncEnabled /\ ~mPrimaryHWVsyncEnabled'
                         /\ end = 1 /\ begin = 0
           /\ on + off = 0 => /\ mPrimaryHWVsyncEnabled' = mPrimaryHWVsyncEnabled
                              /\ begin = 0 /\ end = 0]_vars

\* C40 witness: vsync is turned off, with its endResync, while a thread is
\* between resyncToHardwareVsync and setVsyncPeriod.
C40_Witness ==
    /\ CallCount(vsyncCalls, "EventControlThread.setVsyncEnabled", B2N(FALSE)) = 1
    /\ CallCount(vsyncCalls, "DispSync.endResync", 0) = 1
    /\ ~mPrimaryHWVsyncEnabled
    /\ \E t \in Threads : vsyncThreads[t].pc = "setVsyncPeriod"

\* C36 as claimed: the callbacks come in the order of the updates of the
\* stored type.  When the last callback invocation carried the stored type
\* and a thread invokes the callback again while no other event is in
\* flight, the invocation is that of the last update: it carries the type
\* getPreferredRefreshRateType() returns, and does so when the event has
\* finished.
C36_CallbacksInOrderOfUpdates ==
    [][\A t \in Threads :
          (/\ threads[t].pc = "changeRefreshRate"
           /\ threads'[t].pc = "callback"
           /\ \A u \in Threads \ {t} : threads[u].pc = "idle"
           /\ callbackLog # NoChange
           /\ callbackLog[1] = mFeatures.refreshRateType)
              => callbackLog'[1] = mFeatures'.refreshRateType]_vars

\* A touch event has stored PERFORMANCE after another event had stored
\* DEFAULT, the callback of the other event came last, and every event has
\* finished.
C36_Witness ==
    /\ NoEventInFlight
    /\ mFeatures.touch = "Active"
    /\ mFeatures.refreshRateType = "PERFORMANCE"
    /\ callbackLog # NoChange
    /\ callbackLog[1] = "DEFAULT"

\* Output::prepareFrame runs on the enabled display.
PrepareFrameOfEnabled ==
    pc = "prepareFrame" /\ pc' = "postFramebuffer" /\ mState.isEnabled

\* C37 as claimed: after prepareFrame on an enabled output, with any list of
\* output layers, the frame uses client or device composition.
C37_SomeCompositionAfterPrepareFrame ==
    [][PrepareFrameOfEnabled =>
          mState'.usesClientComposition \/ mState'.usesDeviceComposition]_vars

\* C37 amended: after prepareFrame on an enabled output the frame uses
\* client or device composition, except when the display has no output
\* layers and the composer answered without error: then it uses neither.
C37_SomeCompositionUnlessNoLayers ==
    [][PrepareFrameOfEnabled =>
          ((mState'.usesClientComposition \/ mState'.usesDeviceComposition)
              <=> ~(mOutputLayersOrderedByZ' = <<>> /\ AskedComposer(FALSE)))]_vars

\* C37 witness: prepareFrame has run on an enabled display with a HWC id and
\* no output layers, and the frame uses neither composition.
C37_Witness ==
    /\ pc = "postFramebuffer"
    /\ mState.isEnabled
    /\ mId
    /\ mOutputLayersOrderedByZ = <<>>
    /\ ~mState.usesClientComposition
    /\ ~mState.usesDeviceComposition

\* The functions of the HWC that Display calls with its display id.
HWComposerFunctions ==
    {"HWComposer.disconnectDisplay", "HWComposer.getDeviceCompositionChanges",
     "HWComposer.setActiveColorMode", "HWComposer.setColorTransform",
     "HWComposer.hasDisplayCapability"}

\* The step called the given function of the HWC.
CallsComposer(function) ==
    \E i \in DOMAIN displayCalls' : displayCalls'[i][1] = function

\* C38 as claimed: disconnect leaves the display without a HWC display id
\* and calls disconnectDisplay only when the display had one, the id does
\* not come back, and an operation on a display without an id neither
\* dereferences the absent id nor calls the HWC.
C38_NoComposerUseAfterDisconnect ==
    [][/\ mId' => mId
       /\ CallsComposer("HWComposer.disconnectDisplay") <=> (mId /\ ~mId')
       /\ ~mId => /\ pc' # "trapped"
                  /\ \A function \in HWComposerFunctions : ~CallsComposer(function)]_vars

\* C38 witness: the display has been disconnected and setColorTransform has
\* then called the HWC with the value it read from the empty mId.
C38_Witness ==
    /\ ~mId
    /\ \E i \in DOMAIN displayCalls :
           /\ displayCalls[i][1] = "HWComposer.setColorTransform"
           /\ displayCalls[i][2] = B2N(TRUE)

\* finishFrame of the frame found no buffer to dequeue: the last step asked
\* for client composition and dequeueBuffer failed.
DequeueFailed == <<"RenderSurface.dequeueBuffer", B2N(FALSE)>> \in calls

\* postFramebuffer runs in the step.
PostFramebufferPhase == pc = "postFramebuffer" /\ pc' = "idle"

\* C39 as claimed: a frame whose client composition failed for want of a
\* buffer leaves the dirty region non-empty for the next frame.
C39_DequeueFailureKeepsDirtyRegion ==
    [][(PostFramebufferPhase /\ DequeueFailed /\ mState.dirtyRegion # {})
          => mState'.dirtyRegion # {}]_vars

\* C39 amended: only postFramebuffer on an enabled output, run as the last
\* phase of a frame or by devOptRepaintFlash, empties a non-empty dirty
\* region, and the last phase does so also in a frame whose client
\* composition failed for want of a buffer: the dirty region is empty when
\* the next frame starts.
C39_DequeueFailureStillClears ==
    [][/\ (PostFramebufferPhase /\ DequeueFailed /\ mState.isEnabled)
             => mState'.dirtyRegion = {}
       /\ (mState.dirtyRegion # {} /\ mState'.dirtyRegion = {})
             => /\ mState.isEnabled
                /\ pc \in {"postFramebuffer", "devOptRepaintFlash"}
                /\ <<"RenderSurface.flip", 0>> \in calls']_vars

\* C39 witness: finishFrame has failed to dequeue a buffer and queued none,
\* with a dirty region that postFramebuffer is about to clear.
C39_Witness ==
    /\ pc = "postFramebuffer"
    /\ mState.isEnabled
    /\ DequeueFailed
    /\ <<"RenderSurface.queueBuffer", 0>> \notin calls
    /\ mState.dirtyRegion # {}

====
